---- MODULE Spec2Model ----
(***************************************************************************)
(* Layout-polymorphic record containers of cavlib: the fixed-size          *)
(* SoAArray / SoASpan with their tuple proxies (experimental/vectors) and  *)
(* the growable SoAVec (include/cav/vectors).                              *)
(*                                                                         *)
(* The record shape is the one of the soa3 / aos3 tests,                   *)
(* tuple<int, double, std::vector<int>>.  A record is the sequence         *)
(* <<int, double, vector>>; a double is written in tenths (0.2 is 2); a    *)
(* std::vector<int> is a sequence of integers.  Field K of the code        *)
(* (0-based) is position K+1 of the sequence; element indices keep the     *)
(* code's 0-based numbering and are shifted where a sequence is indexed.   *)
(***************************************************************************)
EXTENDS Integers, Sequences, FiniteSets, TLC

VARIABLES
    soa,      \* SoAArray<soa_tag,...> containers: c -> [ptrs, sz] (soa_base)
    aos,      \* SoAArray<aos_tag,...> containers: c -> sequence of records
    last,     \* the proxy operation performed last: [op, a, b, k]
    x,        \* the value the last operation produced (a record or a field)
    built,    \* the containers the last range construction produced
    before,   \* the SoA containers as they were before the current run of swaps
    swapRun,  \* how many times in a row the last swap(a, b) was applied (0..2)
    vec,      \* SoAVec<soa_tag,...>::base: one std::vector per field
    avec,     \* SoAVec<aos_tag,...>: std::vector of records
    pushed,   \* the records pushed since the vector was empty, in order
    onlyPush, \* TRUE while nothing but push_back has been applied
    vlast,    \* the SoAVec operation performed last: [op, a, b, ret]
    its,      \* two iterators, its.a and its.b: [idx, container]; its.a is
              \* also the SoAReference held while the vector is appended to
    res,      \* what the last access or iterator operation produced
    walk,     \* the walk of its.a from begin(): [c, k], k = -1 when none;
              \* for a held reference, k counts the appends since it was taken
    heap,     \* every buffer std::allocator has handed out, in order
    objs,     \* the soa_base objects constructed so far: [alive, ptrs, sz]
    mlast,    \* the construction or destruction performed last
    ovec,     \* an OffsetVec<int>: [vec, cap, beg, off] (storage and iterators)
    olast,    \* the OffsetVec operation performed last: [op, n]
    uf,       \* a UnionFind<size_t>: [nodes, components_num]
    ulast,    \* the UnionFind operation performed last: [op, a, b, ret]
    spans,    \* the OwnSpan<T> objects constructed so far: [alive, ptr, sz]
    bufs,     \* every buffer an OwnSpan allocated: [by, n, freed]
    slast     \* the OwnSpan operation performed last: [op, obj, src]

vars == <<soa, aos, last, x, built, before, swapRun, vec, avec, pushed, onlyPush, vlast,
          its, res, walk, heap, objs, mlast, ovec, olast, uf, ulast, spans, bufs, slast>>
arrVars == <<soa, aos, last, x, built, before, swapRun>>
vecVars == <<vec, avec, pushed, onlyPush, vlast>>
iterVars == <<its, res, walk>>
memVars == <<heap, objs, mlast>>
offVars == <<ovec, olast>>
ufVars == <<uf, ulast>>
ownVars == <<spans, bufs, slast>>

----------------------------------------------------------------------------
(* Bounds of the model *)

\* Largest number of elements the two fixed-size containers hold together.
MaxElems == 3
\* Largest size the growable SoAVec reaches.
MaxVecSize == 3
\* Width in bits the model gives size_t and ptrdiff_t.
SizeBits == 12
\* Largest number of soa_base objects constructed in one run.
MaxObjs == 3
\* Largest length of a container constructed on the heap.
MaxSlots == 2
\* Largest length the storage of the OffsetVec reaches.
MaxOffLen == 8
\* Largest n passed to make_space_front(n) and make_space_back(n).
MaxSpace == 2
\* Largest number of OwnSpan objects constructed in one run.
MaxSpans == 3
\* Largest number of buffers the OwnSpan objects of one run allocate.
MaxBufs == 4
\* Largest number of nodes the UnionFind holds.
MaxNodes == 5




----------------------------------------------------------------------------
(* The record shape *)

\* sizeof...(Ts) of soa3 = SoAArray<soa_tag, int, double, std::vector<int>>
ntypes == 3

Fields == 1..ntypes

\* The field that is a std::vector<int>; the others are scalars.
IsVecField(k) == k = 3

\* tuple{}: every field value-initialised (0, 0.0, empty vector).
ValueInit(k) == IF IsVecField(k) THEN <<>> ELSE 0

DefaultTup == [k \in Fields |-> ValueInit(k)]

\* The records the test scripts write: (1, .0, {1,2,3}) and (2, 0.2, {4,5,6}).
Records == { <<1, 0, <<1, 2, 3>>>>, <<2, 2, <<4, 5, 6>>>> }

\* State of an object of field type k after it has been moved from, by move
\* construction or move assignment into another object: a scalar keeps its
\* value, a std::vector is left empty.
MovedFrom(k, v) == IF IsVecField(k) THEN <<>> ELSE v

\* v = std::move(v) on one and the same object: nothing for a scalar; a
\* std::vector releases its buffer and is left empty.
SelfMoved(k, v) == IF IsVecField(k) THEN <<>> ELSE v

----------------------------------------------------------------------------
(* SoAArray<soa_tag, Ts...>::soa_base *)

Conts == {1, 2}

\* soa_base(size_t n, value_type const& tup = {})
soa_base_fill(n, tup) ==
    [ptrs |-> [k \in Fields |-> [j \in 1..n |-> tup[k]]], sz |-> n]

\* SoAArray::size()
ArrSize(st, c) == st[c].sz

\* SoAArray::operator[](size_t i): the proxy {i, this}; assert(i < size())
InBounds(st, c, i) == 0 <= i /\ i < ArrSize(st, c)

Proxy(c, i) == [c |-> c, idx |-> i]

NoProxy == [c |-> 0, idx |-> 0]

Proxies(st) == {Proxy(c, i) : c \in Conts, i \in 0..(MaxElems - 1)} \cap
               {p \in [c : Conts, idx : 0..(MaxElems - 1)] : InBounds(st, p.c, p.idx)}

\* TupleProxyLRef::operator[](i): soa_array->base.ptrs[i][idx]
ProxyGet(st, p, k) == st[p.c].ptrs[k][p.idx + 1]

\* Mutant: the store lands in every slot of the field array.
ProxyPut_Broadcast(st, p, k, v) ==
    [st EXCEPT ![p.c].ptrs[k] = [j \in 1..Len(@) |-> v]]

\* A store through the reference TupleProxyLRef::operator[] returns.
ProxyPut(st, p, k, v) == [st EXCEPT ![p.c].ptrs[k][p.idx + 1] = v]

SameSlot(p, q) == p.c = q.c /\ p.idx = q.idx

----------------------------------------------------------------------------
(* TupleProxyLRef / TupleProxyRRef (SoAArray.hpp), TupleProxy (SoASpan.hpp) *)

\* Mutant: the right-hand side is read through this proxy, not the other.
CopyField_FromSelf(st, dst, src, k) == ProxyPut(st, dst, k, ProxyGet(st, dst, k))

\* One step of the fold of operator=(self other): (*this)[I] = other[I]
CopyField(st, dst, src, k) == ProxyPut(st, dst, k, ProxyGet(st, src, k))

RECURSIVE CopyFields(_, _, _, _)
CopyFields(st, dst, src, k) ==
    IF k > ntypes THEN st
    ELSE CopyFields(CopyField(st, dst, src, k), dst, src, k + 1)

\* TupleProxyLRef::operator=(self other): the fields in order, one by one
ProxyCopyAssign(st, dst, src) == CopyFields(st, dst, src, 1)

RECURSIVE TupFields(_, _, _, _)
TupFields(st, dst, tup, k) ==
    IF k > ntypes THEN st
    ELSE TupFields(ProxyPut(st, dst, k, tup[k]), dst, tup, k + 1)

\* TupleProxyLRef::operator=(tup_type const& tup)
ProxyAssignTup(st, dst, tup) == TupFields(st, dst, tup, 1)

\* Mutant: the field is copied and the source keeps its buffer.
MoveField_NoRelease(st, dst, src, k) == ProxyPut(st, dst, k, ProxyGet(st, src, k))

\* One step of the fold of operator=(TupleProxyRRef other):
\* (*this)[I] = std::move(other[I]), a move assignment of the field type
MoveField(st, dst, src, k) ==
    LET v == ProxyGet(st, src, k) IN
    IF SameSlot(dst, src)
    THEN ProxyPut(st, dst, k, SelfMoved(k, v))
    ELSE ProxyPut(ProxyPut(st, dst, k, v), src, k, MovedFrom(k, v))

RECURSIVE MoveFields(_, _, _, _)
MoveFields(st, dst, src, k) ==
    IF k > ntypes THEN st
    ELSE MoveFields(MoveField(st, dst, src, k), dst, src, k + 1)

\* Mutant: the moving overload is not selected and the fields are copied.
ProxyMoveAssign_AsCopy(st, dst, src) == ProxyCopyAssign(st, dst, src)

\* TupleProxyLRef::operator=(TupleProxyRRef other)
ProxyMoveAssign(st, dst, src) == MoveFields(st, dst, src, 1)

\* Mutant: the proxy's index is dropped and element 0 is read.
ProxyToTup_FirstElem(st, p) == [k \in Fields |-> st[p.c].ptrs[k][1]]

\* TupleProxyLRef::operator tup_type() const: tup_type{(*this)[Is]...}
ProxyToTup(st, p) == [k \in Fields |-> ProxyGet(st, p, k)]

\* Mutant: operator[] of the moving proxy returns an lvalue; nothing is moved.
TakeField_Copy(st, p, k) == st

\* The storage after an object was move-constructed from slot k of p
\* (TupleProxyRRef::operator[] hands out std::move(ptrs[i][idx])).
TakeField(st, p, k) == ProxyPut(st, p, k, MovedFrom(k, ProxyGet(st, p, k)))

RECURSIVE TakeFields(_, _, _)
TakeFields(st, p, k) ==
    IF k > ntypes THEN st ELSE TakeFields(TakeField(st, p, k), p, k + 1)

\* TupleProxyRRef::operator T(): {std::move((*this)[Is])...}; the record built
RRefToTup(st, p) == [k \in Fields |-> ProxyGet(st, p, k)]

\* TupleProxyRRef::operator T(): the storage it leaves behind
RRefToTupStore(st, p) == TakeFields(st, p, 1)

\* Mutant: a swap without the temporary, r1[i] = r2[i]; r2[i] = r1[i].
SwapField_Clobber(st, p, q, k) ==
    LET s1 == ProxyPut(st, p, k, ProxyGet(st, q, k))
    IN  ProxyPut(s1, q, k, ProxyGet(s1, p, k))

\* std::swap(r1[i], r2[i]) of swap(TupleProxy, TupleProxy)
SwapField(st, p, q, k) ==
    LET a == ProxyGet(st, p, k)
        b == ProxyGet(st, q, k)
    IN  ProxyPut(ProxyPut(st, p, k, b), q, k, a)

RECURSIVE SwapFields(_, _, _, _)
SwapFields(st, p, q, k) ==
    IF k > ntypes THEN st
    ELSE SwapFields(SwapField(st, p, q, k), p, q, k + 1)

\* Mutant: the index sequence misses field 0.
ProxySwap_SkipFirst(st, p, q) == SwapFields(st, p, q, 2)

\* swap(TupleProxy r1, TupleProxy r2): for_each_idx over the fields
ProxySwap(st, p, q) == SwapFields(st, p, q, 1)

\* Mutant: the source iterator is never advanced.
soa_base_range_Stuck(src, f, l) ==
    [ptrs |-> [k \in Fields |-> [j \in 1..(l - f) |-> src[f + 1][k]]],
     sz   |-> l - f]

\* soa_base(first, last) over a contiguous range of records: src is the
\* sequence the pointers range over, [f, l) the range in 0-based positions.
soa_base_range(src, f, l) ==
    [ptrs |-> [k \in Fields |-> [j \in 1..(l - f) |-> src[f + j][k]]],
     sz   |-> l - f]

----------------------------------------------------------------------------
(* SoAArray<aos_tag, Ts...>: an OwnSpan of tuples; a[i] is a tuple& *)

\* OwnSpan(c_size): every element value-initialised
OwnSpanSized(n) == [j \in 1..n |-> DefaultTup]

\* OwnSpan(c_size, args...): every element constructed from the arguments
OwnSpanFill(n, tup) == [j \in 1..n |-> tup]

\* OwnSpan::operator[](i)
AosGet(st, p) == st[p.c][p.idx + 1]

AosPut(st, p, k, v) == [st EXCEPT ![p.c][p.idx + 1][k] = v]

\* a[i] = tup: the tuple's (memberwise) copy assignment
AosAssignTup(st, dst, tup) == [st EXCEPT ![dst.c][dst.idx + 1] = tup]

\* a[i] = a[j]
AosCopyAssign(st, dst, src) == AosAssignTup(st, dst, AosGet(st, src))

AosMoveMember(st, dst, src, k) ==
    LET v == AosGet(st, src)[k] IN
    IF SameSlot(dst, src)
    THEN AosPut(st, dst, k, SelfMoved(k, v))
    ELSE AosPut(AosPut(st, dst, k, v), src, k, MovedFrom(k, v))

RECURSIVE AosMoveMembers(_, _, _, _)
AosMoveMembers(st, dst, src, k) ==
    IF k > ntypes THEN st
    ELSE AosMoveMembers(AosMoveMember(st, dst, src, k), dst, src, k + 1)

\* a[i] = std::move(a[j]): the tuple's memberwise move assignment
AosMoveAssign(st, dst, src) == AosMoveMembers(st, dst, src, 1)

\* tuple(std::move(a[i])): the storage after the memberwise move construction
AosMoveOutStore(st, p) ==
    [st EXCEPT ![p.c][p.idx + 1] = [k \in Fields |-> MovedFrom(k, @[k])]]

\* std::move(a[i])[K]: tuple_elem::operator[] returns an lvalue reference,
\* so the field is copied and the element is left as it was.
AosFieldOutStore(st, p, k) == st

\* std::swap(a[i], a[j]) on two tuples
AosSwap(st, p, q) ==
    LET a == AosGet(st, p)
        b == AosGet(st, q)
    IN  AosAssignTup(AosAssignTup(st, p, b), q, a)

\* SoAArray<aos_tag>(first, last) over proxy iterators of SoA container c:
\* element i is constructed from *it, the proxy converted to a tuple.
aos_from_range(st, c, f, l) ==
    [j \in 1..(l - f) |-> ProxyToTup(st, Proxy(c, f + j - 1))]

----------------------------------------------------------------------------
(* The fixed-size containers under a script of proxy operations.  Every     *)
(* step applies one operation to the SoA containers and the same operation *)
(* to the AoS containers built from the same arguments.                    *)

NoX == [s |-> <<>>, a |-> <<>>]

NoBuilt == [from |-> 0, s |-> soa_base_fill(0, DefaultTup), a |-> <<>>]

NoBefore == [c \in Conts |-> soa_base_fill(0, DefaultTup)]

NoVLast == [op |-> "none", a |-> 0, b |-> 0, ret |-> -1]

NoIters == [a |-> [idx |-> 0, container |-> 0], b |-> [idx |-> 0, container |-> 0]]

NoRes == [op |-> "none", arg |-> 0, c |-> 0,
          s |-> [ok |-> TRUE, val |-> 0], a |-> [ok |-> TRUE, val |-> 0]]

NoWalk == [c |-> 0, k |-> -1]

\* Nothing throws.
NoFail == [at |-> "none", k |-> 0, j |-> 0]

NoMLast == [op |-> "none", ok |-> TRUE, obj |-> 0, src |-> 0, n |-> 0,
            tup |-> <<>>, f |-> NoFail, ptrs |-> <<>>]

\* The containers of the other headers while a script does not use them.
NoOVec == [vec |-> <<>>, cap |-> 0, beg |-> 0, off |-> 0]

NoOLast == [op |-> "none", n |-> 0]

OffIdle == ovec = NoOVec /\ olast = NoOLast

NoUF == [nodes |-> <<>>, components_num |-> 0]

NoULast == [op |-> "none", a |-> 0, b |-> 0, ret |-> 0]

UFIdle == uf = NoUF /\ ulast = NoULast

NoSLast == [op |-> "none", obj |-> 0, src |-> 0]

OwnIdle == spans = <<>> /\ bufs = <<>> /\ slast = NoSLast

Op1(op, p) == [op |-> op, a |-> p, b |-> NoProxy, k |-> 0]

Op2(op, p, q) == [op |-> op, a |-> p, b |-> q, k |-> 0]

\* soa3{n} / aos3{n}, or soa3{n, tup} / aos3{n, tup}: a first container of n1
\* elements and a second one of one element, in both layouts
ArrInit ==
    /\ \E n1 \in 1..MaxElems, n2 \in {1}, t \in Records \cup {DefaultTup} :
          /\ n1 + n2 <= MaxElems
          /\ soa = [c \in Conts |-> soa_base_fill(IF c = 1 THEN n1 ELSE n2, t)]
          /\ aos = [c \in Conts |->
                       IF t = DefaultTup
                       THEN OwnSpanSized(IF c = 1 THEN n1 ELSE n2)
                       ELSE OwnSpanFill(IF c = 1 THEN n1 ELSE n2, t)]
    /\ last = Op1("none", NoProxy)
    /\ x = NoX
    /\ built = NoBuilt
    /\ before = NoBefore
    /\ swapRun = 0
    /\ vec = [k \in Fields |-> <<>>]
    /\ avec = <<>>
    /\ pushed = <<>>
    /\ onlyPush = TRUE
    /\ vlast = NoVLast
    /\ its = NoIters
    /\ res = NoRes
    /\ walk = NoWalk
    /\ heap = <<>>
    /\ objs = <<>>
    /\ mlast = NoMLast
    /\ OffIdle /\ UFIdle /\ OwnIdle

\* s[i] = tup
AssignTup(p, tup) ==
    /\ soa' = ProxyAssignTup(soa, p, tup)
    /\ aos' = AosAssignTup(aos, p, tup)
    /\ last' = Op1("assign", p)
    /\ x' = [s |-> tup, a |-> tup]
    /\ built' = NoBuilt
    /\ before' = NoBefore
    /\ swapRun' = 0
    /\ UNCHANGED <<vecVars, iterVars, memVars, offVars, ufVars, ownVars>>

\* s[i] = s[j]
CopyAssign(p, q) ==
    /\ soa' = ProxyCopyAssign(soa, p, q)
    /\ aos' = AosCopyAssign(aos, p, q)
    /\ last' = Op2("copy", p, q)
    /\ x' = NoX
    /\ built' = NoBuilt
    /\ before' = NoBefore
    /\ swapRun' = 0
    /\ UNCHANGED <<vecVars, iterVars, memVars, offVars, ufVars, ownVars>>

\* s[i] = std::move(s[j])
MoveAssign(p, q) ==
    /\ soa' = ProxyMoveAssign(soa, p, q)
    /\ aos' = AosMoveAssign(aos, p, q)
    /\ last' = Op2("move", p, q)
    /\ x' = NoX
    /\ built' = NoBuilt
    /\ before' = NoBefore
    /\ swapRun' = 0
    /\ UNCHANGED <<vecVars, iterVars, memVars, offVars, ufVars, ownVars>>

\* auto x = struct_of_3(s[i])
Convert(p) ==
    /\ x' = [s |-> ProxyToTup(soa, p), a |-> AosGet(aos, p)]
    /\ last' = Op1("convert", p)
    /\ built' = NoBuilt
    /\ before' = NoBefore
    /\ swapRun' = 0
    /\ UNCHANGED <<soa, aos>>
    /\ UNCHANGED <<vecVars, iterVars, memVars, offVars, ufVars, ownVars>>

\* auto y = struct_of_3(std::move(s[i]))
MoveOut(p) ==
    /\ x' = [s |-> RRefToTup(soa, p), a |-> AosGet(aos, p)]
    /\ soa' = RRefToTupStore(soa, p)
    /\ aos' = AosMoveOutStore(aos, p)
    /\ last' = Op1("moveout", p)
    /\ built' = NoBuilt
    /\ before' = NoBefore
    /\ swapRun' = 0
    /\ UNCHANGED <<vecVars, iterVars, memVars, offVars, ufVars, ownVars>>

\* auto v = std::move(s[i])[K]
FieldOut(p, k) ==
    /\ x' = [s |-> <<ProxyGet(soa, p, k)>>, a |-> <<AosGet(aos, p)[k]>>]
    /\ soa' = TakeField(soa, p, k)
    /\ aos' = AosFieldOutStore(aos, p, k)
    /\ last' = [op |-> "fieldout", a |-> p, b |-> NoProxy, k |-> k]
    /\ built' = NoBuilt
    /\ before' = NoBefore
    /\ swapRun' = 0
    /\ UNCHANGED <<vecVars, iterVars, memVars, offVars, ufVars, ownVars>>

\* swap(s[i], t[j])
Swap(p, q) ==
    /\ soa' = ProxySwap(soa, p, q)
    /\ aos' = AosSwap(aos, p, q)
    /\ last' = Op2("swap", p, q)
    /\ x' = NoX
    /\ built' = NoBuilt
    /\ LET again == last.op = "swap" /\ last.a = p /\ last.b = q /\ swapRun = 1 IN
          /\ swapRun' = IF again THEN 2 ELSE 1
          /\ before' = IF again THEN before ELSE soa
    /\ UNCHANGED <<vecVars, iterVars, memVars, offVars, ufVars, ownVars>>

\* soa3{a.begin(), a.end()} and aos3{s.begin(), s.end()} of container c
BuildFromRange(c) ==
    /\ built' = [from |-> c,
                 s |-> soa_base_range(aos[c], 0, Len(aos[c])),
                 a |-> aos_from_range(soa, c, 0, ArrSize(soa, c))]
    /\ last' = Op1("build", NoProxy)
    /\ before' = NoBefore
    /\ swapRun' = 0
    /\ x' = NoX
    /\ UNCHANGED <<soa, aos>>
    /\ UNCHANGED <<vecVars, iterVars, memVars, offVars, ufVars, ownVars>>

ArrNext ==
    \/ \E p \in Proxies(soa), tup \in Records : AssignTup(p, tup)
    \/ \E p \in Proxies(soa), q \in Proxies(soa) : CopyAssign(p, q)
    \/ \E p \in Proxies(soa), q \in Proxies(soa) : MoveAssign(p, q)
    \/ \E p \in Proxies(soa) : Convert(p)
    \/ \E p \in Proxies(soa) : MoveOut(p)
    \/ \E p \in Proxies(soa), k \in Fields : FieldOut(p, k)
    \/ \E p \in Proxies(soa), q \in Proxies(soa) : Swap(p, q)
    \/ \E c \in Conts : BuildFromRange(c)

SpecArr == ArrInit /\ [][ArrNext]_vars
----------------------------------------------------------------------------
(* Proxy assignment in which the assignment of one field throws.  The fold  *)
(* over the fields runs in field order and has no try/catch: the exception  *)
(* leaves operator= at the field that threw, which its own assignment has   *)
(* left as it was.                                                          *)

\* Mutant: the fields assigned before the throw are rolled back.
CopyFieldsThrow_Atomic(st, dst, src, k, failAt) == st

\* The fold of operator=(self other) up to the field failAt that throws
RECURSIVE CopyFieldsThrow(_, _, _, _, _)
CopyFieldsThrow(st, dst, src, k, failAt) ==
    IF k >= failAt THEN st
    ELSE CopyFieldsThrow(CopyField(st, dst, src, k), dst, src, k + 1, failAt)

\* The fold of operator=(tup_type const&) up to the field that throws
RECURSIVE TupFieldsThrow(_, _, _, _, _)
TupFieldsThrow(st, dst, tup, k, failAt) ==
    IF k >= failAt THEN st
    ELSE TupFieldsThrow(ProxyPut(st, dst, k, tup[k]), dst, tup, k + 1, failAt)

\* The fold of operator=(TupleProxyRRef) up to the field that throws
RECURSIVE MoveFieldsThrow(_, _, _, _, _)
MoveFieldsThrow(st, dst, src, k, failAt) ==
    IF k >= failAt THEN st
    ELSE MoveFieldsThrow(MoveField(st, dst, src, k), dst, src, k + 1, failAt)

\* An exception has left an assignment; the run ends there.
ArrThrown == last.op \in {"assign throws", "copy throws", "move throws"}

\* The outcome of an assignment statement on the SoA container that threw
Threw(op, p, q, tup, failAt, st2) ==
    /\ ~ArrThrown
    /\ soa' = st2
    /\ last' = [op |-> op, a |-> p, b |-> q, k |-> failAt]
    /\ x' = [s |-> tup, a |-> tup]
    /\ built' = NoBuilt
    /\ before' = NoBefore
    /\ swapRun' = 0
    /\ UNCHANGED <<aos, vecVars, iterVars, memVars, offVars, ufVars, ownVars>>

\* s[i] = tup, the assignment of field failAt throwing
AssignTupThrows(p, tup, failAt) ==
    Threw("assign throws", p, NoProxy, tup, failAt,
          TupFieldsThrow(soa, p, tup, 1, failAt))

\* s[i] = s[j], the assignment of field failAt throwing
CopyAssignThrows(p, q, failAt) ==
    Threw("copy throws", p, q, <<>>, failAt,
          CopyFieldsThrow(soa, p, q, 1, failAt))

\* s[i] = std::move(s[j]), the assignment of field failAt throwing
MoveAssignThrows(p, q, failAt) ==
    Threw("move throws", p, q, <<>>, failAt,
          MoveFieldsThrow(soa, p, q, 1, failAt))

ArrFailNext ==
    \/ \E p \in Proxies(soa), tup \in Records : ~ArrThrown /\ AssignTup(p, tup)
    \/ \E p \in Proxies(soa), q \in Proxies(soa) : ~ArrThrown /\ CopyAssign(p, q)
    \/ \E p \in Proxies(soa), q \in Proxies(soa) : ~ArrThrown /\ MoveAssign(p, q)
    \/ \E p \in Proxies(soa), tup \in Records, failAt \in Fields :
          AssignTupThrows(p, tup, failAt)
    \/ \E p \in Proxies(soa), q \in Proxies(soa), failAt \in Fields :
          CopyAssignThrows(p, q, failAt)
    \/ \E p \in Proxies(soa), q \in Proxies(soa), failAt \in Fields :
          MoveAssignThrows(p, q, failAt)

SpecArrFail == ArrInit /\ [][ArrFailNext]_vars


----------------------------------------------------------------------------
(* Properties of the fixed-size containers and their proxies *)

\* Field k of the element a proxy denotes, read straight from the storage.
Slot(st, p, k) == st[p.c].ptrs[k][p.idx + 1]

\* Every field of every element is the same in the two layouts.
Equiv(s, a) ==
    \A c \in Conts :
        /\ s[c].sz = Len(a[c])
        /\ \A i \in 1..s[c].sz : \A k \in Fields : s[c].ptrs[k][i] = a[c][i][k]

ScriptOps == {"assign", "copy", "move", "convert", "moveout", "swap"}

\* C3: an AoS and a SoA container built from the same records agree in every
\* field at every index, and a step of the script (a record written to an
\* element, an element copied or moved into another, an element read or
\* moved out as a record, two elements swapped) applied to both keeps them
\* in agreement and yields the same value from both.
C3_LayoutsEquivalent ==
    /\ Equiv(soa, aos)
    /\ [][(Equiv(soa, aos) /\ last'.op \in ScriptOps)
            => (Equiv(soa', aos') /\ x'.s = x'.a)]_vars

\* C3 witness: a move assignment of an element with a non-empty array field
\* has been applied to both layouts, which still agree.
C3_Witness ==
    /\ last.op = "move"
    /\ ~SameSlot(last.a, last.b)
    /\ Slot(soa, last.a, 3) # <<>>
    /\ Equiv(soa, aos)

\* C4: after a = b between two distinct elements (of one container or of
\* two), every field of a is the prior value of that field of b and b is
\* unchanged.
C4_CopyAssign ==
    [][(last'.op = "copy" /\ ~SameSlot(last'.a, last'.b))
         => \A k \in Fields :
               /\ Slot(soa', last'.a, k) = Slot(soa, last'.b, k)
               /\ Slot(soa', last'.b, k) = Slot(soa, last'.b, k)]_vars

\* C4 witness: a copy between elements of two different containers has
\* carried a non-empty array field over.
C4_Witness ==
    /\ last.op = "copy"
    /\ last.a.c # last.b.c
    /\ Slot(soa, last.a, 3) # <<>>
    /\ Slot(soa, last.a, 3) = Slot(soa, last.b, 3)

\* C5 as stated: after a = move(b) between two distinct elements a holds b's
\* prior fields, b's scalars are kept and its array field is empty, and b
\* read as a record differs from what it was before the move.
C5_MoveAssign_AsStated ==
    [][(last'.op = "move" /\ ~SameSlot(last'.a, last'.b))
         => /\ \A k \in Fields : Slot(soa', last'.a, k) = Slot(soa, last'.b, k)
            /\ Slot(soa', last'.b, 1) = Slot(soa, last'.b, 1)
            /\ Slot(soa', last'.b, 2) = Slot(soa, last'.b, 2)
            /\ Slot(soa', last'.b, 3) = <<>>
            /\ [k \in Fields |-> Slot(soa', last'.b, k)]
                 # [k \in Fields |-> Slot(soa, last'.b, k)]]_vars

\* C5 amended: after a = move(b) between two distinct elements a holds b's
\* prior fields, b's scalars are kept and its array field is empty; b read
\* as a record differs from what it was before the move exactly when its
\* array field was not empty before the move.
C5_MoveAssign ==
    [][(last'.op = "move" /\ ~SameSlot(last'.a, last'.b))
         => /\ \A k \in Fields : Slot(soa', last'.a, k) = Slot(soa, last'.b, k)
            /\ Slot(soa', last'.b, 1) = Slot(soa, last'.b, 1)
            /\ Slot(soa', last'.b, 2) = Slot(soa, last'.b, 2)
            /\ Slot(soa', last'.b, 3) = <<>>
            /\ ([k \in Fields |-> Slot(soa', last'.b, k)]
                  # [k \in Fields |-> Slot(soa, last'.b, k)])
                 <=> (Slot(soa, last'.b, 3) # <<>>)]_vars

\* C5 witness: a move assignment has carried a non-empty array field from b
\* to a and left b's array field empty.
C5_Witness ==
    /\ last.op = "move"
    /\ ~SameSlot(last.a, last.b)
    /\ Slot(soa, last.a, 3) # <<>>
    /\ Slot(soa, last.b, 3) = <<>>
    /\ Slot(soa, last.b, 1) = Slot(soa, last.a, 1)

\* C6: swap(a, b) leaves in a every prior field of b and in b every prior
\* field of a, for elements of the same container or of two containers.
C6_Swap ==
    [][last'.op = "swap"
         => \A k \in Fields :
               /\ Slot(soa', last'.a, k) = Slot(soa, last'.b, k)
               /\ Slot(soa', last'.b, k) = Slot(soa, last'.a, k)]_vars

\* C6 witness: two different elements of different containers were swapped.
C6_Witness ==
    /\ last.op = "swap"
    /\ last.a.c # last.b.c
    /\ \E k \in Fields : Slot(soa, last.a, k) # Slot(soa, last.b, k)
    /\ swapRun = 1

\* C7: after swap(a, b) applied twice in a row to the same two proxies (the
\* same element twice included) every container is as it was before the
\* first of the two swaps.
C7_SwapInvolution == swapRun = 2 => soa = before

\* C7 witness: two different elements of two containers were swapped twice.
C7_Witness ==
    /\ swapRun = 2
    /\ last.a.c # last.b.c
    /\ \E k \in Fields : Slot(soa, last.a, k) # Slot(soa, last.b, k)

\* C8: a SoA container built from the range [begin, end) of an AoS container
\* and an AoS container built from the range of a SoA container have the
\* size of the source and its field values at every index, and the sources
\* are unchanged.
C8_RangeRoundTrip ==
    [][last'.op = "build"
         => LET c == built'.from IN
            /\ soa' = soa /\ aos' = aos
            /\ built'.s.sz = Len(aos[c])
            /\ \A i \in 1..Len(aos[c]) : \A k \in Fields :
                  built'.s.ptrs[k][i] = aos[c][i][k]
            /\ Len(built'.a) = soa[c].sz
            /\ \A i \in 1..soa[c].sz : \A k \in Fields :
                  built'.a[i][k] = soa[c].ptrs[k][i]]_vars

\* C8 witness: containers were built from a source of at least two elements
\* that differ from each other.
C8_Witness ==
    /\ last.op = "build"
    /\ built.s.sz >= 2
    /\ Len(built.a) >= 2
    /\ built.a[1] # built.a[2]
    /\ built.s.ptrs[3][1] # built.s.ptrs[3][2]

\* C9: converting a proxy to a record yields, in field K, field K of the
\* element at the proxy's index, and changes no field of any container.
C9_ProxyToRecord ==
    [][last'.op = "convert"
         => /\ \A k \in Fields : x'.s[k] = Slot(soa, last'.a, k)
            /\ soa' = soa]_vars

\* C9 witness: a record with a non-empty array field was read from an
\* element other than the first of its container.
C9_Witness ==
    /\ last.op = "convert"
    /\ last.a.idx > 0
    /\ x.s[3] # <<>>
    /\ x.s[3] = Slot(soa, last.a, 3)

\* C10: converting a moving proxy to a record yields the element's prior
\* fields and leaves its array field empty and its scalars as they were;
\* moving a single field out yields that field's prior value, leaves it
\* empty if it is the array field, and changes no other field.
C10_MovingProxy ==
    [][/\ last'.op = "moveout"
          => /\ \A k \in Fields : x'.s[k] = Slot(soa, last'.a, k)
             /\ Slot(soa', last'.a, 1) = Slot(soa, last'.a, 1)
             /\ Slot(soa', last'.a, 2) = Slot(soa, last'.a, 2)
             /\ Slot(soa', last'.a, 3) = <<>>
       /\ last'.op = "fieldout"
          => /\ x'.s = <<Slot(soa, last'.a, last'.k)>>
             /\ Slot(soa', last'.a, last'.k)
                  = IF last'.k = 3 THEN <<>> ELSE Slot(soa, last'.a, last'.k)
             /\ \A p \in Proxies(soa) : \A k \in Fields :
                   (~SameSlot(p, last'.a) \/ k # last'.k)
                      => Slot(soa', p, k) = Slot(soa, p, k)]_vars

\* C10 witness: a record with a non-empty array field was moved out of an
\* element, whose array field is now empty.
C10_Witness ==
    /\ last.op = "moveout"
    /\ x.s[3] # <<>>
    /\ Slot(soa, last.a, 3) = <<>>
    /\ x.s[1] = Slot(soa, last.a, 1)

\* C10, second case reached: a non-empty array field alone was moved out.
C10_FieldOutReached ==
    /\ last.op = "fieldout"
    /\ last.k = 3
    /\ x.s[1] # <<>>
    /\ Slot(soa, last.a, 3) = <<>>

WriteOps == {"assign", "copy", "move", "moveout"}

\* C11: a write through a proxy (a record assigned to element i, element j
\* copied or moved into element i, element j moved out as a record) changes
\* no field of any element other than the destination i and, for the two
\* moves, the source j (last.a is the destination, or the element moved out
\* as a record; last.b is the source of a copy or move assignment).
C11_FrameOfWrites ==
    [][last'.op \in WriteOps
         => \A p \in Proxies(soa) : \A k \in Fields :
               (/\ ~SameSlot(p, last'.a)
                /\ ~(last'.op = "move" /\ SameSlot(p, last'.b)))
                  => Slot(soa', p, k) = Slot(soa, p, k)]_vars

\* C11 witness: an element with a non-empty array field was moved from one
\* container into another, next to a third element that holds a non-empty
\* array field of its own.
C11_Witness ==
    /\ last.op = "move"
    /\ last.a.c # last.b.c
    /\ Slot(soa, last.a, 3) # <<>>
    /\ \E p \in Proxies(soa) :
          /\ p.c = last.a.c
          /\ p.idx # last.a.idx
          /\ Slot(soa, p, 3) # <<>>
          /\ Slot(soa, p, 3) # Slot(soa, last.a, 3)

\* C21: proxy assignment (from a record, from another proxy, from a moving
\* proxy) goes field by field in position order and is not atomic: when the
\* assignment of field K throws, the fields before K of the destination hold
\* the source's values and the fields from K on keep their prior values.
C21_AssignmentNotAtomic ==
    [][/\ last'.op = "assign throws"
          => \A k \in Fields :
                Slot(soa', last'.a, k)
                  = IF k < last'.k THEN x'.s[k] ELSE Slot(soa, last'.a, k)
       /\ (last'.op \in {"copy throws", "move throws"}
             /\ ~SameSlot(last'.a, last'.b))
          => \A k \in Fields :
                Slot(soa', last'.a, k)
                  = IF k < last'.k THEN Slot(soa, last'.b, k)
                    ELSE Slot(soa, last'.a, k)]_vars

\* C21 witness: a copy assignment threw at its last field after it had
\* changed the first field, and the last field still differs from the
\* source's.
C21_Witness ==
    /\ last.op = "copy throws"
    /\ last.k = ntypes
    /\ ~SameSlot(last.a, last.b)
    /\ Slot(soa, last.a, 1) = Slot(soa, last.b, 1)
    /\ Slot(soa, last.a, 1) # 0
    /\ Slot(soa, last.a, ntypes) # Slot(soa, last.b, ntypes)

----------------------------------------------------------------------------
(* SoAVec<soa_tag, Ts...>: base is a tuple of one std::vector per field *)

\* size(): base.first().size()
vec_size(v) == Len(v[1])

\* SoAVec(sz, tup): every field vector built as std::vector<Ts>(sz, arg)
vec_fill(n, tup) == [k \in Fields |-> [j \in 1..n |-> tup[k]]]

\* operator[](idx) read as a record: get<I>(ref) is get<I>(base)[idx]
vec_at(v, idx) == [k \in Fields |-> v[k][idx + 1]]

\* clear(): vs.clear() on every field vector
vec_clear(v) == [k \in Fields |-> <<>>]

\* insert(pos, x): get<Is>(base).insert(get<Is>(pos), get<Is>(x)) for each
\* field; get<Is>(pos) is begin() + pos.idx of that field's vector.
vec_insert(v, pos, xr) ==
    [k \in Fields |->
        SubSeq(v[k], 1, pos) \o <<xr[k]>> \o SubSeq(v[k], pos + 1, Len(v[k]))]

\* insert(pos, n, x): n copies of field Is of x into every field vector
vec_insert_n(v, pos, n, xr) ==
    [k \in Fields |->
        SubSeq(v[k], 1, pos) \o [j \in 1..n |-> xr[k]]
                             \o SubSeq(v[k], pos + 1, Len(v[k]))]

\* insert(pos, first, last) with iterators [f, l) into another SoAVec src:
\* get<Is>(first), get<Is>(last) delimit field Is of the source.
vec_insert_range(v, pos, src, f, l) ==
    [k \in Fields |->
        SubSeq(v[k], 1, pos) \o SubSeq(src[k], f + 1, l)
                             \o SubSeq(v[k], pos + 1, Len(v[k]))]

\* erase(pos): get<Is>(base).erase(get<Is>(pos)) for each field
vec_erase(v, pos) ==
    [k \in Fields |-> SubSeq(v[k], 1, pos) \o SubSeq(v[k], pos + 2, Len(v[k]))]

\* erase(first, last): the positions [f, l) leave every field vector
vec_erase_range(v, f, l) ==
    [k \in Fields |-> SubSeq(v[k], 1, f) \o SubSeq(v[k], l + 1, Len(v[k]))]

\* Mutant: the fields past the given arguments are not appended to.
vec_emplace_back_NoFill(v, nargs, args) ==
    [k \in Fields |-> IF k <= nargs THEN Append(v[k], args[k]) ELSE v[k]]

\* Mutant: every field is constructed from the record, also those past nargs.
vec_emplace_back_AllArgs(v, nargs, args) ==
    [k \in Fields |-> Append(v[k], args[k])]

\* emplace_back(args...) with nargs <= sizeof...(Ts) arguments: the first
\* nargs field vectors emplace_back(arg), the others emplace_back().
vec_emplace_back(v, nargs, args) ==
    [k \in Fields |-> Append(v[k], IF k <= nargs THEN args[k] ELSE ValueInit(k))]

\* emplace_back(args...) when the emplace_back of field vector failAt throws
\* (std::bad_alloc while it grows, or the copy of the argument): the fold
\* stops there, the field vectors before failAt have already grown
vec_emplace_back_throws(v, nargs, args, failAt) ==
    [k \in Fields |->
        IF k < failAt
        THEN Append(v[k], IF k <= nargs THEN args[k] ELSE ValueInit(k))
        ELSE v[k]]

\* Mutant: the record is put in front of the elements.
vec_push_back_Front(v, xr) == vec_insert(v, 0, xr)

\* push_back(x): x.reduce(emplace_back(args...)) with all the fields of x
vec_push_back(v, xr) == vec_emplace_back(v, ntypes, xr)

\* Mutant: the first element is removed, not the last.
vec_pop_back_Front(v) == [k \in Fields |-> SubSeq(v[k], 2, Len(v[k]))]

\* pop_back(): vs.pop_back() on every field vector
vec_pop_back(v) == [k \in Fields |-> SubSeq(v[k], 1, Len(v[k]) - 1)]

\* resize(sz): vs.resize(sz) on every field vector; new slots value-initialised
vec_resize(v, n) ==
    [k \in Fields |->
        IF n <= Len(v[k])
        THEN SubSeq(v[k], 1, n)
        ELSE v[k] \o [j \in 1..(n - Len(v[k])) |-> ValueInit(k)]]

\* assign(n, tup): vs.assign(n, elem) on every field vector
vec_assign(v, n, xr) == [k \in Fields |-> [j \in 1..n |-> xr[k]]]

----------------------------------------------------------------------------
(* SoAVec<aos_tag, Ts...>: a std::vector<tuple<Ts...>> *)

\* SoAVec(sz, args...): base(sz, value_type{args...})
avec_fill(n, tup) == [j \in 1..n |-> tup]

\* push_back(x), inherited unchanged from std::vector<value_type>
avec_push_back(a, xr) == Append(a, xr)

\* pop_back() and clear(), inherited unchanged from std::vector<value_type>
avec_pop_back(a) == SubSeq(a, 1, Len(a) - 1)

avec_clear(a) == <<>>

----------------------------------------------------------------------------
(* The growable containers under a script of vector operations.  The tail   *)
(* operations (push_back, pop_back, clear) are applied to the SoA vector   *)
(* and to the AoS vector; the other operations are applied to the SoA      *)
(* vector alone, while the AoS vector is empty.  No vector grows past      *)
(* MaxVecSize.                                                             *)

\* The records of the source vectors a range insertion reads from.
SrcRecs == << <<1, 0, <<1, 2, 3>>>>, <<2, 2, <<4, 5, 6>>>> >>

\* The SoA source vector: the records of SrcRecs pushed in order.
SrcVec == [k \in Fields |-> [j \in 1..Len(SrcRecs) |-> SrcRecs[j][k]]]

VOp(op, a, b, ret) == [op |-> op, a |-> a, b |-> b, ret |-> ret]

\* Both vectors hold at most MaxVecSize elements.
Fits(v, a) == vec_size(v) <= MaxVecSize /\ Len(a) <= MaxVecSize

\* Positions an iterator of the SoA vector may take: begin() .. end().
InsPos == 0..vec_size(vec)

\* Positions of the SoA vector that hold an element.
ElemPos == 0..(vec_size(vec) - 1)

\* The bookkeeping of a step that leaves the vectors as v2 and a2: pushed
\* lists the records appended by push_back since both vectors were empty.
Track(op, xr, v2, a2) ==
    IF vec_size(v2) = 0 /\ Len(a2) = 0
    THEN pushed' = <<>> /\ onlyPush' = TRUE
    ELSE IF op = "push_back"
         THEN /\ pushed' = IF onlyPush THEN Append(pushed, xr) ELSE pushed
              /\ onlyPush' = onlyPush
         ELSE pushed' = <<>> /\ onlyPush' = FALSE

\* An exception has left emplace_back; the run ends there.
Thrown == vlast.op = "emplace_back throws"

\* The outcome of a step: both vectors, the operation, the bookkeeping.
VecStep(op, a, b, ret, xr, v2, a2) ==
    /\ ~Thrown
    /\ Fits(v2, a2)
    /\ vec' = v2
    /\ avec' = a2
    /\ vlast' = VOp(op, a, b, ret)
    /\ Track(op, xr, v2, a2)
    /\ UNCHANGED <<arrVars, iterVars, memVars, offVars, ufVars, ownVars>>

\* The outcome of a step applied to the SoA vector alone.
SoaStep(op, a, b, ret, xr, v2) ==
    /\ Len(avec) = 0
    /\ VecStep(op, a, b, ret, xr, v2, avec)

\* SoAVec{}, SoAVec(sz) or SoAVec(sz, tup) in both layouts
VecInit ==
    /\ \E n \in 0..MaxVecSize, t \in Records \cup {DefaultTup} :
          /\ vec = vec_fill(n, t)
          /\ avec = avec_fill(n, t)
          /\ onlyPush = (n = 0)
    /\ pushed = <<>>
    /\ vlast = NoVLast
    /\ soa = NoBefore
    /\ aos = [c \in Conts |-> <<>>]
    /\ last = Op1("none", NoProxy)
    /\ x = NoX
    /\ built = NoBuilt
    /\ before = NoBefore
    /\ swapRun = 0
    /\ its = NoIters
    /\ res = NoRes
    /\ walk = NoWalk
    /\ heap = <<>>
    /\ objs = <<>>
    /\ mlast = NoMLast
    /\ OffIdle /\ UFIdle /\ OwnIdle

\* v.push_back(xr)
PushBack(xr) ==
    VecStep("push_back", 0, 0, -1, xr,
            vec_push_back(vec, xr), avec_push_back(avec, xr))

\* v.emplace_back(args...) with the first nargs fields of xr
EmplaceBack(nargs, xr) ==
    SoaStep("emplace_back", nargs, 0, vec_size(vec), xr,
            vec_emplace_back(vec, nargs, xr))

\* v.pop_back(), on the AoS vector too when it holds an element
PopBack ==
    /\ vec_size(vec) > 0
    /\ VecStep("pop_back", 0, 0, -1, DefaultTup,
               vec_pop_back(vec),
               IF Len(avec) > 0 THEN avec_pop_back(avec) ELSE avec)

\* v.clear()
Clear ==
    VecStep("clear", 0, 0, -1, DefaultTup, vec_clear(vec), avec_clear(avec))

\* v.insert(v.begin() + pos, xr)
Insert(pos, xr) ==
    SoaStep("insert", pos, 1, pos, xr,
            vec_insert(vec, pos, xr))

\* v.insert(v.begin() + pos, n, xr)
InsertN(pos, n, xr) ==
    SoaStep("insert_n", pos, n, pos, xr,
            vec_insert_n(vec, pos, n, xr))

\* v.insert(v.begin() + pos, src.begin() + f, src.begin() + l)
InsertRange(pos, f, l) ==
    /\ f <= l
    /\ SoaStep("insert_range", pos, l - f, pos, DefaultTup,
               vec_insert_range(vec, pos, SrcVec, f, l))

\* v.erase(v.begin() + pos)
Erase(pos) ==
    SoaStep("erase", pos, pos + 1, pos, DefaultTup,
            vec_erase(vec, pos))

\* v.erase(v.begin() + f, v.begin() + l); the iterator returned is {last.idx}
EraseRange(f, l) ==
    /\ f <= l
    /\ SoaStep("erase_range", f, l, l, DefaultTup,
               vec_erase_range(vec, f, l))

\* v.resize(n)
Resize(n) ==
    SoaStep("resize", n, 0, -1, DefaultTup, vec_resize(vec, n))

\* v.assign(n, xr)
Assign(n, xr) ==
    SoaStep("assign", n, 0, -1, xr, vec_assign(vec, n, xr))

VecNext ==
    \/ \E xr \in Records : PushBack(xr)
    \/ \E nargs \in 0..ntypes, xr \in Records : EmplaceBack(nargs, xr)
    \/ PopBack
    \/ Clear
    \/ \E pos \in InsPos, xr \in Records : Insert(pos, xr)
    \/ \E pos \in InsPos, n \in 0..MaxVecSize, xr \in Records : InsertN(pos, n, xr)
    \/ \E pos \in InsPos, f \in 0..Len(SrcRecs), l \in 0..Len(SrcRecs) :
          InsertRange(pos, f, l)
    \/ \E pos \in ElemPos : Erase(pos)
    \/ \E f \in InsPos, l \in InsPos : EraseRange(f, l)
    \/ \E n \in 0..MaxVecSize : Resize(n)
    \/ \E n \in 0..MaxVecSize, xr \in Records : Assign(n, xr)

SpecVec == VecInit /\ [][VecNext]_vars

\* v.emplace_back(args...) in which the emplace_back of field vector k throws
EmplaceBackThrows(nargs, xr, k) ==
    VecStep("emplace_back throws", nargs, k, -1, xr,
            vec_emplace_back_throws(vec, nargs, xr, k), avec)

\* The growable containers when an emplace_back may throw
VecFailNext ==
    \/ VecNext
    \/ \E nargs \in 0..ntypes, xr \in Records, k \in Fields :
          EmplaceBackThrows(nargs, xr, k)

SpecVecFail == VecInit /\ [][VecFailNext]_vars

----------------------------------------------------------------------------
(* SoAReference: {idx, soa_vec}.  its.a is a reference held across the     *)
(* operations that follow; walk.k counts the appends since it was taken.    *)

\* SoAVec::operator[](idx): SoAReference{idx, this}
Ref(i) == [idx |-> i, container |-> 1]

\* get<I>(SoAReference&): get<I>(tup.soa_vec->base)[tup.idx]
ref_get(v, r, k) == v[k][r.idx + 1]

\* Mutant: the store lands in the last element of the field vector.
ref_put_Back(v, r, k, val) == [v EXCEPT ![k][Len(v[k])] = val]

\* A store through the reference get<I>(SoAReference&) returns
ref_put(v, r, k, val) == [v EXCEPT ![k][r.idx + 1] = val]

\* The element a reference denotes, field by field
ref_to_tup(v, r) == [k \in Fields |-> ref_get(v, r, k)]

\* generic_copy(tup) with a record: get<Is>(*this) = get<Is>(tup), in order
RECURSIVE generic_copy_tup(_, _, _, _)
generic_copy_tup(v, dst, tup, k) ==
    IF k > ntypes THEN v
    ELSE generic_copy_tup(ref_put(v, dst, k, tup[k]), dst, tup, k + 1)

\* Mutant: the fields are moved out of the other reference.
ref_assign_Moves(v, dst, src, k) ==
    LET val == ref_get(v, src, k) IN
    IF dst.idx = src.idx THEN ref_put(v, dst, k, SelfMoved(k, val))
    ELSE ref_put(ref_put(v, dst, k, val), src, k, MovedFrom(k, val))

\* One field of generic_copy(other) with a reference: other is a named
\* parameter, get<I>(other) is an lvalue and the field is copy-assigned
ref_assign(v, dst, src, k) == ref_put(v, dst, k, ref_get(v, src, k))

\* operator=(self&& other): generic_copy(other)
RECURSIVE generic_copy_ref(_, _, _, _)
generic_copy_ref(v, dst, src, k) ==
    IF k > ntypes THEN v
    ELSE generic_copy_ref(ref_assign(v, dst, src, k), dst, src, k + 1)

\* steal(self&& other): get<Is>(*this) = std::move(get<Is>(other)), in order
RECURSIVE steal(_, _, _, _)
steal(v, dst, src, k) ==
    IF k > ntypes THEN v
    ELSE LET val == ref_get(v, src, k)
             v2 == IF dst.idx = src.idx
                   THEN ref_put(v, dst, k, SelfMoved(k, val))
                   ELSE ref_put(ref_put(v, dst, k, val), src, k, MovedFrom(k, val))
         IN  steal(v2, dst, src, k + 1)

\* The outcome of a step on the vector and the held reference
RefStep(op, a, b, v2, its2, walk2) ==
    /\ vec_size(v2) <= MaxVecSize
    /\ vec' = v2
    /\ vlast' = VOp(op, a, b, -1)
    /\ its' = its2
    /\ walk' = walk2
    /\ UNCHANGED <<avec, pushed, onlyPush, res, arrVars, memVars, offVars, ufVars, ownVars>>

\* One more append since the reference was taken
Appended == IF walk.k >= 0 THEN [walk EXCEPT !.k = @ + 1] ELSE walk

\* A vector of the first n records of SrcRecs; no reference held
RefInit ==
    /\ \E n \in 0..Len(SrcRecs) :
          vec = [k \in Fields |-> SubSeq(SrcVec[k], 1, n)]
    /\ avec = <<>>
    /\ pushed = <<>>
    /\ onlyPush = TRUE
    /\ vlast = NoVLast
    /\ soa = NoBefore
    /\ aos = [c \in Conts |-> <<>>]
    /\ last = Op1("none", NoProxy)
    /\ x = NoX
    /\ built = NoBuilt
    /\ before = NoBefore
    /\ swapRun = 0
    /\ its = NoIters
    /\ res = NoRes
    /\ walk = NoWalk
    /\ heap = <<>>
    /\ objs = <<>>
    /\ mlast = NoMLast
    /\ OffIdle /\ UFIdle /\ OwnIdle

\* auto r = v[i]
RefTake(i) ==
    RefStep("ref take", i, 0, vec, [its EXCEPT !.a = Ref(i)], [c |-> 1, k |-> 0])

\* v.push_back(x)
RefPushBack(xr) ==
    RefStep("ref push_back", 0, xr, vec_push_back(vec, xr), its, Appended)

\* v.emplace_back(args...) with the first nargs fields of xr
RefEmplaceBack(nargs, xr) ==
    RefStep("ref emplace_back", nargs, xr, vec_emplace_back(vec, nargs, xr), its,
            Appended)

\* r = tup, through the held reference
RefWrite(xr) ==
    /\ its.a.container # 0
    /\ RefStep("ref write", its.a.idx, xr, generic_copy_tup(vec, its.a, xr, 1),
               its, walk)

\* v[i] = std::move(v[j])
RefAssign(i, j) ==
    RefStep("ref assign", i, j, generic_copy_ref(vec, Ref(i), Ref(j), 1),
            its, walk)

\* v[i].steal(v[j])
RefSteal(i, j) ==
    RefStep("ref steal", i, j, steal(vec, Ref(i), Ref(j), 1), its, walk)

RefNext ==
    \/ \E i \in ElemPos : RefTake(i)
    \/ \E xr \in Records : RefPushBack(xr)
    \/ \E nargs \in 0..ntypes, xr \in Records : RefEmplaceBack(nargs, xr)
    \/ \E xr \in Records : RefWrite(xr)
    \/ \E i \in ElemPos, j \in ElemPos : RefAssign(i, j)
    \/ \E i \in ElemPos, j \in ElemPos : RefSteal(i, j)

SpecRef == RefInit /\ [][RefNext]_vars

----------------------------------------------------------------------------
(* Properties of the growable containers *)

\* C1: after every mutating operation of the SoA vector (push_back,
\* emplace_back, pop_back, insert, erase, clear, resize, assign) every one of
\* the N field arrays has the same length, and that length is size().
C1_FieldArraysSameLength ==
    \A k \in Fields : Len(vec[k]) = vec_size(vec)

\* C1 witness: an emplace_back with fewer arguments than fields has appended
\* the second element, whose array field is value-initialised, after an
\* element whose array field is not empty.
C1_Witness ==
    /\ vlast.op = "emplace_back"
    /\ vlast.a < ntypes
    /\ vec_size(vec) = 2
    /\ vec_at(vec, 1)[3] = <<>>
    /\ vec_at(vec, 0)[3] # <<>>

\* C17: when an append to the SoA vector fails while one of the N field
\* arrays grows, the new length is not committed: all N field arrays still
\* have the same length, the length before the append, and it is size().
C17_AppendRolledBack ==
    [][Thrown'
         => \A k \in Fields :
               /\ Len(vec'[k]) = vec_size(vec')
               /\ Len(vec'[k]) = Len(vec[k])]_vars

\* The elements of the SoA vector read in index order
AsSeq(v) == [i \in 1..vec_size(v) |-> vec_at(v, i - 1)]

\* C22: push_back and pop_back change the SoA vector at its tail only, as the
\* same operations change a sequence: push_back(x) appends x after the
\* elements there were; pop_back lowers size() by exactly 1, removes the last
\* element and leaves the elements 0 .. size() - 1 as they were; a vector
\* that agrees with the std::vector of records keeps agreeing with it.
C22_TailOnly ==
    [][/\ vlast'.op = "push_back"
          => /\ vec_size(vec') = vec_size(vec) + 1
             /\ AsSeq(vec') = Append(AsSeq(vec), avec'[Len(avec')])
       /\ vlast'.op = "pop_back"
          => /\ vec_size(vec') = vec_size(vec) - 1
             /\ \A k \in Fields : Len(vec'[k]) = vec_size(vec')
             /\ AsSeq(vec') = SubSeq(AsSeq(vec), 1, vec_size(vec) - 1)
       /\ (vlast'.op \in {"push_back", "pop_back"} /\ AsSeq(vec) = avec)
          => AsSeq(vec') = avec']_vars

\* C22 witness: a pop_back has left two different elements in the vector,
\* which agrees with the std::vector of records.
C22_Witness ==
    /\ vlast.op = "pop_back"
    /\ vec_size(vec) = 2
    /\ vec_at(vec, 0) # vec_at(vec, 1)
    /\ AsSeq(vec) = avec

\* C24: erase(first, last) removes exactly the elements of the indices
\* first.idx .. last.idx - 1 from all N field arrays, and the iterator it
\* returns has the index first.idx, where the element that followed the
\* removed ones now is (end() when none followed).
C24_EraseRange ==
    [][vlast'.op = "erase_range"
         => LET f == vlast'.a
                l == vlast'.b
            IN  /\ \A k \in Fields : Len(vec'[k]) = vec_size(vec) - (l - f)
                /\ AsSeq(vec') = SubSeq(AsSeq(vec), 1, f)
                                   \o SubSeq(AsSeq(vec), l + 1, vec_size(vec))
                /\ vlast'.ret = f]_vars

\* C29: emplace_back with k <= N arguments appends exactly one element to
\* every one of the N field arrays, after the elements there were: its fields
\* before k are the arguments in order, its fields from k on are
\* value-initialised, and the proxy returned has the index size() had before
\* the call.
C29_EmplaceBack ==
    [][vlast'.op = "emplace_back"
         => LET nargs == vlast'.a
                n == vec_size(vec)
            IN  /\ \A k \in Fields : Len(vec'[k]) = Len(vec[k]) + 1
                /\ vlast'.ret = n
                /\ \A i \in 0..(n - 1) : vec_at(vec', i) = vec_at(vec, i)
                /\ \E xr \in Records : \A k \in Fields :
                      vec_at(vec', vlast'.ret)[k]
                        = IF k <= nargs THEN xr[k] ELSE ValueInit(k)]_vars

\* C29 witness: an emplace_back with two arguments has appended the second
\* element; its scalar fields are the arguments, its array field is empty.
C29_Witness ==
    /\ vlast.op = "emplace_back"
    /\ vlast.a = 2
    /\ vlast.ret = 1
    /\ vec_size(vec) = 2
    /\ vec_at(vec, 1)[1] = 2
    /\ vec_at(vec, 1)[2] = 2
    /\ vec_at(vec, 1)[3] = <<>>

\* C27: a SoA reference is an index and a container, not an address: a
\* reference to element i taken before a push_back or emplace_back still
\* reads element i after the append, and a write through it after the append
\* changes element i and no other element.
C27_ReferenceSurvivesAppend ==
    [][its.a.container # 0
         => /\ vlast'.op \in {"ref push_back", "ref emplace_back"}
               => /\ its'.a = its.a
                  /\ ref_to_tup(vec', its'.a) = vec_at(vec, its.a.idx)
                  /\ ref_to_tup(vec', its'.a) = ref_to_tup(vec, its.a)
            /\ vlast'.op = "ref write"
               => /\ vec_size(vec') = vec_size(vec)
                  /\ \A i \in 0..(vec_size(vec) - 1) :
                        vec_at(vec', i) = IF i = its.a.idx THEN vlast'.b
                                          ELSE vec_at(vec, i)]_vars

\* C27 witness: a reference to element 0 was taken, the vector then grew by
\* at least two appends, and a write through the reference has changed
\* element 0 and left a different element 1.
C27_Witness ==
    /\ vlast.op = "ref write"
    /\ walk.k >= 2
    /\ its.a.idx = 0
    /\ vec_at(vec, 0) = vlast.b
    /\ vec_at(vec, 1) # vlast.b

\* C28: a = std::move(b) on two SoA references copies every field of b into
\* a and leaves every field of b, and every other element, as it was; only
\* steal moves the fields out of its source.
C28_RvalueAssignCopies ==
    [][/\ vlast'.op = "ref assign"
          => \A i \in 0..(vec_size(vec) - 1) :
                vec_at(vec', i) = IF i = vlast'.a THEN vec_at(vec, vlast'.b)
                                  ELSE vec_at(vec, i)
       /\ (vlast'.op = "ref steal" /\ vlast'.a # vlast'.b)
          => /\ vec_at(vec', vlast'.a) = vec_at(vec, vlast'.b)
             /\ vec_at(vec', vlast'.b)
                  = [k \in Fields |-> MovedFrom(k, vec_at(vec, vlast'.b)[k])]]_vars

\* C28 witness: v[i] = std::move(v[j]) was applied to two elements, and the
\* source still holds its non-empty array field.
C28_Witness ==
    /\ vlast.op = "ref assign"
    /\ vlast.a # vlast.b
    /\ vec_at(vec, vlast.b)[3] # <<>>
    /\ vec_at(vec, vlast.a) = vec_at(vec, vlast.b)

\* C28, steal reached: the source of a steal has lost its array field.
C28_StealReached ==
    /\ vlast.op = "ref steal"
    /\ vlast.a # vlast.b
    /\ vec_at(vec, vlast.a)[3] # <<>>
    /\ vec_at(vec, vlast.b)[3] = <<>>

\* C2: while only push_back has been applied since the vectors were empty,
\* size() is the number of records pushed and element i read back as a
\* record is the (i+1)-th record pushed, in the SoA and in the AoS layout.
C2_PushBackReadBack ==
    onlyPush =>
        /\ vec_size(vec) = Len(pushed)
        /\ Len(avec) = Len(pushed)
        /\ \A i \in 0..(Len(pushed) - 1) :
              /\ vec_at(vec, i) = pushed[i + 1]
              /\ avec[i + 1] = pushed[i + 1]

\* C2 witness: three records, not all the same, have been pushed to vectors
\* that were empty.
C2_Witness ==
    /\ onlyPush
    /\ vlast.op = "push_back"
    /\ Len(pushed) = 3
    /\ pushed[1] # pushed[2]
    /\ pushed[2] = pushed[3]
    /\ vec_size(vec) = 3
    /\ Len(avec) = 3

----------------------------------------------------------------------------
(* Indexed access and IndexProxyIter / SoAIterator, in a build with the     *)
(* assertions enabled: a failed assert ends the program.                   *)

\* Number of values of size_t
SizeMod == 2 ^ SizeBits

\* Conversion of a signed integer to size_t
ToSizeT(i) == i % SizeMod

\* Conversion of a size_t to ptrdiff_t
ToPtrdiff(u) == IF u >= SizeMod \div 2 THEN u - SizeMod ELSE u

\* The value of an expression that returned val
Returned(val) == [ok |-> TRUE, val |-> val]

\* An assert(...) that failed: nothing is returned
AssertFailed == [ok |-> FALSE, val |-> 0]

\* Mutant: the index is compared as a signed number.
soa_index_Signed(st, c, i) ==
    IF i < ArrSize(st, c) THEN Returned(Proxy(c, i)) ELSE AssertFailed

\* SoAArray<soa_tag>::operator[](size_t i): assert(i < size()); {i, this}
soa_index(st, c, i) ==
    LET u == ToSizeT(i) IN
    IF u < ArrSize(st, c) THEN Returned(Proxy(c, u)) ELSE AssertFailed

\* OwnSpan::operator[](size_t i): assert(i < size()); ptr[i], written as the
\* position of the element referred to
aos_index(st, c, i) ==
    LET u == ToSizeT(i) IN
    IF u < Len(st[c]) THEN Returned(Proxy(c, u)) ELSE AssertFailed

\* IndexProxyIter{idx, container}
Iter(i, c) == [idx |-> i, container |-> c]

\* SoAArray::begin(): {0, this}
soa_begin(c) == Iter(0, c)

\* SoAArray::end(): {size(), this}
soa_end(st, c) == Iter(ArrSize(st, c), c)

\* Mutant: the iterator returned is the one before the increment.
IterInc_Stale(it) == it

\* operator++(): ++idx
IterInc(it) == [it EXCEPT !.idx = (@ + 1) % SizeMod]

\* operator--(): --idx
IterDec(it) == [it EXCEPT !.idx = (@ - 1) % SizeMod]

\* operator+=(ptrdiff_t n): idx += n, n converted to size_t
IterAddAssign(it, n) == [it EXCEPT !.idx = (@ + ToSizeT(n)) % SizeMod]

\* operator-=(ptrdiff_t n): idx -= n
IterSubAssign(it, n) == [it EXCEPT !.idx = (@ - ToSizeT(n)) % SizeMod]

\* Mutant: the unsigned difference is returned without the conversion.
IterDiff_Unsigned(p, q) ==
    IF p.container = q.container
    THEN Returned((p.idx - q.idx) % SizeMod)
    ELSE AssertFailed

\* operator-(self other): assert(container == other.container);
\* idx - other.idx in size_t, returned as ptrdiff_t
IterDiff(p, q) ==
    IF p.container = q.container
    THEN Returned(ToPtrdiff((p.idx - q.idx) % SizeMod))
    ELSE AssertFailed

CmpOps == {"eq", "ne", "lt", "le", "gt", "ge"}

\* idx == other.idx, idx <=> other.idx
CmpIdx(cmp, i, j) ==
    CASE cmp = "eq" -> i = j
      [] cmp = "ne" -> i # j
      [] cmp = "lt" -> i < j
      [] cmp = "le" -> i <= j
      [] cmp = "gt" -> i > j
      [] cmp = "ge" -> i >= j

\* Mutant: the assertion on the containers is missing.
IterCmp_NoAssert(cmp, p, q) == Returned(CmpIdx(cmp, p.idx, q.idx))

\* operator==, operator<=> (and the operators rewritten from them):
\* assert(container == other.container); then the indices are compared
IterCmp(cmp, p, q) ==
    IF p.container = q.container
    THEN Returned(CmpIdx(cmp, p.idx, q.idx))
    ELSE AssertFailed

\* operator*(): container->operator[](idx)
IterDeref(st, it) == soa_index(st, it.container, it.idx)

Whos == {"a", "b"}

\* The program is running: no assertion has failed.
Running == res.s.ok /\ res.a.ok

\* The outcome of a step on the iterators
IterStep(op, arg, c, rs, ra, its2, walk2) ==
    /\ Running
    /\ res' = [op |-> op, arg |-> arg, c |-> c, s |-> rs, a |-> ra]
    /\ its' = its2
    /\ walk' = walk2
    /\ UNCHANGED <<arrVars, vecVars, memVars, offVars, ufVars, ownVars>>

\* Two containers in both layouts, the first one of 0 .. MaxElems - 1
\* elements; no iterator yet
IterInit ==
    /\ \E n1 \in 0..(MaxElems - 1), t \in Records :
          /\ soa = [c \in Conts |-> soa_base_fill(IF c = 1 THEN n1 ELSE 1, t)]
          /\ aos = [c \in Conts |-> OwnSpanFill(IF c = 1 THEN n1 ELSE 1, t)]
    /\ last = Op1("none", NoProxy)
    /\ x = NoX
    /\ built = NoBuilt
    /\ before = NoBefore
    /\ swapRun = 0
    /\ vec = [k \in Fields |-> <<>>]
    /\ avec = <<>>
    /\ pushed = <<>>
    /\ onlyPush = TRUE
    /\ vlast = NoVLast
    /\ its = NoIters
    /\ res = NoRes
    /\ walk = NoWalk
    /\ heap = <<>>
    /\ objs = <<>>
    /\ mlast = NoMLast
    /\ OffIdle /\ UFIdle /\ OwnIdle

\* s[i] and a[i] with a signed i converted to size_t
Index(c, i) ==
    IterStep("index", i, c, soa_index(soa, c, i), aos_index(aos, c, i), its, walk)

\* it = s.begin()
ItBegin(w, c) ==
    IterStep("begin", 0, c, Returned(0), Returned(0),
             [its EXCEPT ![w] = soa_begin(c)],
             IF w = "a" THEN [c |-> c, k |-> 0] ELSE walk)

\* it = s.end()
ItEnd(w, c) ==
    IterStep("end", 0, c, Returned(0), Returned(0),
             [its EXCEPT ![w] = soa_end(soa, c)],
             IF w = "a" THEN NoWalk ELSE walk)

\* ++it, on an iterator that is not end()
ItInc(w) ==
    /\ its[w].container # 0
    /\ its[w].idx < ArrSize(soa, its[w].container)
    /\ IterStep("inc", 0, its[w].container, Returned(0), Returned(0),
                [its EXCEPT ![w] = IterInc(@)],
                IF w = "a" /\ walk.k >= 0 THEN [walk EXCEPT !.k = @ + 1] ELSE walk)

\* --it, on an iterator that is not begin()
ItDec(w) ==
    /\ its[w].container # 0
    /\ its[w].idx > 0
    /\ IterStep("dec", 0, its[w].container, Returned(0), Returned(0),
                [its EXCEPT ![w] = IterDec(@)],
                IF w = "a" THEN NoWalk ELSE walk)

\* it += n, with a signed n that keeps the index in 0 .. size()
ItAdd(w, n) ==
    /\ its[w].container # 0
    /\ 0 <= its[w].idx + n
    /\ its[w].idx + n <= ArrSize(soa, its[w].container)
    /\ IterStep("add", n, its[w].container, Returned(its[w]), Returned(0),
                [its EXCEPT ![w] = IterAddAssign(@, n)],
                IF w = "a" THEN NoWalk ELSE walk)

\* it -= n, with a signed n that keeps the index in 0 .. size()
ItSub(w, n) ==
    /\ its[w].container # 0
    /\ 0 <= its[w].idx - n
    /\ its[w].idx - n <= ArrSize(soa, its[w].container)
    /\ IterStep("sub", n, its[w].container, Returned(its[w]), Returned(0),
                [its EXCEPT ![w] = IterSubAssign(@, n)],
                IF w = "a" THEN NoWalk ELSE walk)

\* a - b
ItDiff ==
    IterStep("diff", 0, 0, IterDiff(its.a, its.b), Returned(0), its, walk)

\* a == b, a != b, a < b, a <= b, a > b, a >= b
ItCompare(cmp) ==
    IterStep(cmp, 0, 0, IterCmp(cmp, its.a, its.b), Returned(0), its, walk)

\* *it
ItDeref(w) ==
    /\ its[w].container # 0
    /\ IterStep("deref", 0, its[w].container, IterDeref(soa, its[w]), Returned(0),
                its, walk)

IterNext ==
    \/ \E c \in Conts, i \in -1..MaxElems : Index(c, i)
    \/ \E w \in Whos, c \in Conts : ItBegin(w, c)
    \/ \E w \in Whos, c \in Conts : ItEnd(w, c)
    \/ \E w \in Whos : ItInc(w)
    \/ \E w \in Whos : ItDec(w)
    \/ \E w \in Whos, n \in (-MaxElems)..MaxElems : ItAdd(w, n)
    \/ \E w \in Whos, n \in (-MaxElems)..MaxElems : ItSub(w, n)
    \/ ItDiff
    \/ \E cmp \in CmpOps : ItCompare(cmp)
    \/ \E w \in Whos : ItDeref(w)

SpecIter == IterInit /\ [][IterNext]_vars

----------------------------------------------------------------------------
(* Properties of indexed access and of the iterators *)

\* C12: container[i] returns a view of element i exactly when 0 <= i < size();
\* for any other i (i = size(), a negative i converted to size_t) the bounds
\* assertion fails and nothing is returned; the containers are unchanged in
\* both cases, in both layouts.
C12_IndexedAccess ==
    [][res'.op = "index"
         => LET i == res'.arg
                c == res'.c
                valid == 0 <= i /\ i < ArrSize(soa, c)
            IN  /\ res'.s.ok <=> valid
                /\ res'.a.ok <=> valid
                /\ valid => /\ res'.s.val = Proxy(c, i)
                            /\ res'.a.val = Proxy(c, i)
                            /\ ProxyToTup(soa', res'.s.val)
                                 = [k \in Fields |-> soa[c].ptrs[k][i + 1]]
                /\ soa' = soa
                /\ aos' = aos]_vars

\* C12 witness: an access with a negative index ended in the failed
\* assertion, in a container that holds an element.
C12_Witness ==
    /\ res.op = "index"
    /\ res.arg < 0
    /\ ~res.s.ok
    /\ ~res.a.ok
    /\ ArrSize(soa, res.c) > 0

\* C13: for iterators a and b of one container with indices in 0 .. size(),
\* a - b is the signed difference of the indices although they are stored
\* unsigned, b + (a - b) == a, and (a + n) - n == a for every signed n that
\* keeps the index in range.
C13_IteratorArithmetic ==
    [][/\ (res'.op = "diff" /\ its.a.container = its.b.container
                            /\ its.a.container # 0)
          => /\ res'.s.ok
             /\ res'.s.val = its.a.idx - its.b.idx
             /\ IterCmp("eq", IterAddAssign(its.b, res'.s.val), its.a)
                  = Returned(TRUE)
       /\ res'.op = "add"
          => LET it == res'.s.val
                 n == res'.arg
             IN  /\ \E w \in Whos : its'[w] = IterAddAssign(it, n)
                 /\ IterAddAssign(it, n).idx = it.idx + n
                 /\ IterCmp("eq", IterSubAssign(IterAddAssign(it, n), n), it)
                      = Returned(TRUE)]_vars

\* C13 witness: a difference of two iterators of one container was taken
\* with a before b, and it is negative.
C13_Witness ==
    /\ res.op = "diff"
    /\ res.s.ok
    /\ res.s.val < 0
    /\ its.a.container = its.b.container
    /\ its.a.idx < its.b.idx

\* C13, second case reached: a negative n was added to an iterator.
C13_AddReached ==
    /\ res.op = "add"
    /\ res.arg < 0

\* C14: k increments after begin() the iterator stands on index k: for
\* k < size() it dereferences to container[k], it < end() and
\* distance(begin(), it) = k; for k = size() it equals end(). So the walk
\* visits 0 .. size() - 1 in order, each once, and then reaches end().
C14_ForwardWalk ==
    walk.k >= 0
      => LET c == walk.c
             it == its.a
             n == ArrSize(soa, c)
         IN  /\ walk.k <= n
             /\ it = Iter(walk.k, c)
             /\ IterDiff(it, soa_begin(c)) = Returned(walk.k)
             /\ walk.k < n
                  => /\ IterDeref(soa, it) = soa_index(soa, c, walk.k)
                     /\ IterDeref(soa, it) = Returned(Proxy(c, walk.k))
                     /\ IterCmp("lt", it, soa_end(soa, c)) = Returned(TRUE)
                     /\ IterCmp("eq", it, soa_end(soa, c)) = Returned(FALSE)
             /\ walk.k = n
                  => IterCmp("eq", it, soa_end(soa, c)) = Returned(TRUE)

\* C14 witness: a walk over a container of at least two elements has just
\* made its last increment and stands at end().
C14_Witness ==
    /\ walk.k >= 2
    /\ walk.k = ArrSize(soa, walk.c)
    /\ res.op = "inc"
    /\ its.a = soa_end(soa, walk.c)

\* C14, empty container: begin() is end() before any increment.
C14_EmptyReached ==
    /\ walk.k = 0
    /\ ArrSize(soa, walk.c) = 0
    /\ its.a = soa_end(soa, walk.c)

\* C15: subtracting or comparing (==, !=, <, <=, >, >=) two iterators that
\* belong to different containers fails the assertion on the containers and
\* produces no result, whatever the two indices are.
C15_DifferentBackends ==
    [][(/\ res'.op \in CmpOps \cup {"diff"}
        /\ its.a.container # its.b.container)
         => res'.s = AssertFailed]_vars

\* C15 witness: two iterators of two different containers with the same
\* index were compared, and the assertion failed.
C15_Witness ==
    /\ res.op \in CmpOps
    /\ ~res.s.ok
    /\ its.a.container # 0
    /\ its.b.container # 0
    /\ its.a.container # its.b.container
    /\ its.a.idx = its.b.idx

\* C15, subtraction reached: a difference across containers failed.
C15_DiffReached ==
    /\ res.op = "diff"
    /\ ~res.s.ok
    /\ its.a.container # 0
    /\ its.b.container # 0

----------------------------------------------------------------------------
(* soa_base on the heap: the buffers std::allocator hands out, the slots   *)
(* constructed in them, and the objects that own them.  A buffer counts    *)
(* how often it was released, a slot how often it was constructed and      *)
(* destroyed.                                                              *)

\* ptr_tuple_t{}: every pointer is nullptr
NullPtrs == [k \in Fields |-> 0]

\* std::allocator<T>{}.allocate(n) for field k: n raw slots
NewBuffer(k, n) ==
    [field |-> k, cap |-> n, rel |-> 0, liveAtRel |-> 0,
     made |-> [j \in 1..n |-> 0],
     gone |-> [j \in 1..n |-> 0],
     val  |-> [j \in 1..n |-> ValueInit(k)]]

\* allocate(n): one buffer per field, in field order; the allocation for
\* field failAt throws (0: none does) and the exception leaves allocate
allocate(h, n, failAt) ==
    LET m == IF failAt = 0 THEN ntypes ELSE failAt - 1 IN
    [heap |-> h \o [k \in 1..m |-> NewBuffer(k, n)],
     ptrs |-> [k \in Fields |-> IF k <= m THEN Len(h) + k ELSE 0],
     ok   |-> failAt = 0]

\* The buffer b is one of the pointers of ptrs.
Owns(ptrs, b) == \E k \in Fields : ptrs[k] = b

\* The field whose pointer is b
FieldOf(ptrs, b) == CHOOSE k \in Fields : ptrs[k] = b

\* The constructor gets as far as slot j of field k before f throws.
Reached(f, k, j) ==
    \/ f.at = "none"
    \/ f.at = "construct" /\ (k < f.k \/ (k = f.k /\ j < f.j))

\* for_each_idx<ntypes>(i): for (j < sz) std::construct_at(ptrs[i] + j, src)
construct_all(h, ptrs, n, src, f) ==
    [b \in DOMAIN h |->
        IF Owns(ptrs, b)
        THEN LET k == FieldOf(ptrs, b) IN
             [h[b] EXCEPT
                !.made = [j \in 1..Len(@) |->
                            IF j <= n /\ Reached(f, k, j) THEN @[j] + 1 ELSE @[j]],
                !.val  = [j \in 1..Len(@) |->
                            IF j <= n /\ Reached(f, k, j) THEN src[k][j] ELSE @[j]]]
        ELSE h[b]]

\* destroy(): for every pointer, for (j < sz) std::destroy_at(ptr + j)
destroy(h, o) ==
    [b \in DOMAIN h |->
        IF Owns(o.ptrs, b)
        THEN [h[b] EXCEPT
                !.gone = [j \in 1..Len(@) |-> IF j <= o.sz THEN @[j] + 1 ELSE @[j]]]
        ELSE h[b]]

\* The slots of a buffer that are constructed and not destroyed
LiveSlots(buf) == {j \in 1..buf.cap : buf.made[j] > buf.gone[j]}

\* deallocate(): every pointer is handed back to std::allocator, then
\* ptrs = {} and sz = 0
deallocate(h, o) ==
    [heap |-> [b \in DOMAIN h |->
                 IF Owns(o.ptrs, b)
                 THEN [h[b] EXCEPT !.rel = @ + 1,
                                   !.liveAtRel = Cardinality(LiveSlots(h[b]))]
                 ELSE h[b]],
     obj  |-> [o EXCEPT !.ptrs = NullPtrs, !.sz = 0]]

\* soa_base() = default
soa_base_default == [alive |-> TRUE, ptrs |-> NullPtrs, sz |-> 0]

\* The member initialisers ptrs{allocate(n)}, sz{n} and the body that
\* constructs every slot from src; an exception leaves the constructor
\* and no object exists
soa_base_sized(h, n, src, f) ==
    LET al == allocate(h, n, IF f.at = "alloc" THEN f.k ELSE 0) IN
    IF ~al.ok
    THEN [heap |-> al.heap, ok |-> FALSE, obj |-> soa_base_default]
    ELSE [heap |-> construct_all(al.heap, al.ptrs, n, src, f),
          ok   |-> f.at = "none",
          obj  |-> [alive |-> TRUE, ptrs |-> al.ptrs, sz |-> n]]

\* Mutant: every slot is value-initialised, tup is ignored.
soa_base_n_tup_ValueInit(h, n, tup, f) ==
    soa_base_sized(h, n, [k \in Fields |-> [j \in 1..n |-> ValueInit(k)]], f)

\* soa_base(size_t n, value_type const& tup)
soa_base_n_tup(h, n, tup, f) ==
    soa_base_sized(h, n, [k \in Fields |-> [j \in 1..n |-> tup[k]]], f)

\* other.ptrs[i][j] for every field and slot of other
SlotValues(h, o) ==
    [k \in Fields |-> [j \in 1..o.sz |-> h[o.ptrs[k]].val[j]]]

\* soa_base(soa_base const& other)
soa_base_copy(h, other, f) ==
    soa_base_sized(h, other.sz, SlotValues(h, other), f)

\* Mutant: the source keeps its pointers and its size.
soa_base_move_Shared(other) ==
    [new |-> [alive |-> TRUE, ptrs |-> other.ptrs, sz |-> other.sz],
     old |-> other]

\* soa_base(soa_base&& other): ptrs{std::exchange(other.ptrs, nullptr)},
\* sz{std::exchange(other.sz, 0)}
soa_base_move(other) ==
    [new |-> [alive |-> TRUE, ptrs |-> other.ptrs, sz |-> other.sz],
     old |-> [other EXCEPT !.ptrs = NullPtrs, !.sz = 0]]

\* ~soa_base(): destroy(); deallocate();
soa_base_dtor(h, o) ==
    LET d == deallocate(destroy(h, o), o) IN
    [heap |-> d.heap, obj |-> [d.obj EXCEPT !.alive = FALSE]]

\* size(): base.sz
soa_size(o) == o.sz

\* empty(): size() == 0
soa_empty(o) == soa_size(o) = 0

\* s[i] converted to a record: field k read from ptrs[k][i]
soa_read(h, o, i) == [k \in Fields |-> h[o.ptrs[k]].val[i + 1]]

\* OwnSpan() = default
OwnSpanDefault == <<>>

\* OwnSpan::size(): sz
aos_size(a) == Len(a)

\* OwnSpan::empty(): sz == 0
aos_empty(a) == aos_size(a) = 0

\* The records containers are constructed from: tuple{} and
\* tuple{1, 2.0, std::vector<int>{1, 2, 3}}
FillRecs == {DefaultTup, <<1, 2, <<1, 2, 3>>>>}

\* The ways a sized construction from src can throw: any of the allocations
\* (std::bad_alloc), or the copy of a non-empty std::vector into a slot
Fails(n, vals) ==
    {NoFail}
      \cup {[at |-> "alloc", k |-> k, j |-> 0] : k \in Fields}
      \cup {[at |-> "construct", k |-> k, j |-> j] :
              k \in {kk \in Fields : IsVecField(kk) /\ n > 0 /\ vals[kk] # <<>>},
              j \in 1..n}

\* No exception is propagating and there is room for one more object.
\* An exception leaves the scope: from then on objects are only destroyed.
CanConstruct ==
    /\ mlast.ok
    /\ Len(objs) < MaxObjs

MOp(op, ok, obj, src, n, tup, f, ptrs) ==
    [op |-> op, ok |-> ok, obj |-> obj, src |-> src, n |-> n, tup |-> tup,
     f |-> f, ptrs |-> ptrs]

\* No container, vector or iterator is touched; nothing constructed yet
MemInit ==
    /\ soa = [c \in Conts |-> soa_base_fill(1, DefaultTup)]
    /\ aos = [c \in Conts |-> OwnSpanFill(1, DefaultTup)]
    /\ last = Op1("none", NoProxy)
    /\ x = NoX
    /\ built = NoBuilt
    /\ before = NoBefore
    /\ swapRun = 0
    /\ vec = [k \in Fields |-> <<>>]
    /\ avec = <<>>
    /\ pushed = <<>>
    /\ onlyPush = TRUE
    /\ vlast = NoVLast
    /\ its = NoIters
    /\ res = NoRes
    /\ walk = NoWalk
    /\ heap = <<>>
    /\ objs = <<>>
    /\ mlast = NoMLast
    /\ OffIdle /\ UFIdle /\ OwnIdle

\* soa3 s;
DefaultConstruct ==
    /\ CanConstruct
    /\ objs' = Append(objs, soa_base_default)
    /\ heap' = heap
    /\ mlast' = MOp("default", TRUE, Len(objs) + 1, 0, 0, <<>>, NoFail, NullPtrs)
    /\ UNCHANGED <<arrVars, vecVars, iterVars, offVars, ufVars, ownVars>>

\* The outcome of a sized construction r
Constructed(op, r, src, n, tup, f) ==
    /\ heap' = r.heap
    /\ objs' = IF r.ok THEN Append(objs, r.obj) ELSE objs
    /\ mlast' = MOp(op, r.ok, IF r.ok THEN Len(objs) + 1 ELSE 0, src, n, tup, f,
                    r.obj.ptrs)
    /\ UNCHANGED <<arrVars, vecVars, iterVars, offVars, ufVars, ownVars>>

\* soa3 s{n, tup};
FillConstruct(n, tup, f) ==
    /\ CanConstruct
    /\ f \in Fails(n, tup)
    /\ Constructed("fill", soa_base_n_tup(heap, n, tup, f), 0, n, tup, f)

\* soa3 s{other};
CopyConstruct(o, f) ==
    /\ CanConstruct
    /\ objs[o].alive
    /\ f \in Fails(objs[o].sz,
                   IF objs[o].sz > 0 THEN soa_read(heap, objs[o], 0) ELSE DefaultTup)
    /\ Constructed("copy", soa_base_copy(heap, objs[o], f), o, objs[o].sz, <<>>, f)

\* soa3 s{std::move(other)};
MoveConstruct(o) ==
    /\ CanConstruct
    /\ objs[o].alive
    /\ LET r == soa_base_move(objs[o]) IN
         /\ objs' = Append([objs EXCEPT ![o] = r.old], r.new)
         /\ mlast' = MOp("move", TRUE, Len(objs) + 1, o, r.new.sz, <<>>, NoFail,
                         r.new.ptrs)
    /\ heap' = heap
    /\ UNCHANGED <<arrVars, vecVars, iterVars, offVars, ufVars, ownVars>>

\* The object goes out of scope.
Destruct(o) ==
    /\ objs[o].alive
    /\ LET r == soa_base_dtor(heap, objs[o]) IN
         /\ heap' = r.heap
         /\ objs' = [objs EXCEPT ![o] = r.obj]
    /\ mlast' = MOp("destroy", mlast.ok, o, 0, objs[o].sz, <<>>, NoFail, objs[o].ptrs)
    /\ UNCHANGED <<arrVars, vecVars, iterVars, offVars, ufVars, ownVars>>

MemNext ==
    \/ DefaultConstruct
    \/ \E n \in 0..MaxSlots, tup \in FillRecs :
          \E f \in Fails(n, tup) : FillConstruct(n, tup, f)
    \/ \E o \in DOMAIN objs :
          \E f \in {NoFail} \cup {[at |-> a, k |-> k, j |-> j] :
                       a \in {"alloc", "construct"}, k \in Fields, j \in 0..MaxSlots} :
             CopyConstruct(o, f)
    \/ \E o \in DOMAIN objs : MoveConstruct(o)
    \/ \E o \in DOMAIN objs : Destruct(o)

SpecMem == MemInit /\ [][MemNext]_vars

----------------------------------------------------------------------------
(* Properties of construction and destruction *)

\* The buffers handed out by the step just taken
NewBuffers == (Len(heap) + 1)..Len(heap')

\* C16: allocate(n) is all-or-nothing: when the allocation of one of the
\* field buffers fails, every buffer already allocated in that call has been
\* released when the failure is reported.
C16_AllocateAllOrNothing ==
    [][mlast'.f.at = "alloc"
         => \A b \in NewBuffers : heap'[b].rel = 1]_vars

\* C18: when a sized construction fails while it constructs the slots, every
\* slot already constructed has been destroyed and every buffer allocated
\* has been released.
C18_ConstructionReversed ==
    [][(mlast'.op \in {"fill", "copy"} /\ mlast'.f.at = "construct")
         => \A b \in NewBuffers :
               /\ heap'[b].rel = 1
               /\ LiveSlots(heap'[b]) = {}]_vars

\* C19: the destructor of a container of size n destroys each of the n live
\* slots of each field array exactly once and then releases each buffer
\* exactly once; over every sequence of constructions, copies, moves and
\* destructions no slot is destroyed twice or without having been
\* constructed, no buffer is released twice or with a live slot in it, and a
\* moved-from container owns nothing.
C19_DestroyedOnce ==
    /\ \A b \in DOMAIN heap :
          /\ heap[b].rel <= 1
          /\ heap[b].rel = 1 => heap[b].liveAtRel = 0
          /\ \A j \in 1..heap[b].cap :
                /\ heap[b].gone[j] <= 1
                /\ heap[b].gone[j] <= heap[b].made[j]
    /\ mlast.op = "destroy"
         => /\ objs[mlast.obj].ptrs = NullPtrs
            /\ mlast.n > 0 => \A k \in Fields : mlast.ptrs[k] # 0
            /\ \A k \in Fields :
                  mlast.ptrs[k] # 0
                    => LET buf == heap[mlast.ptrs[k]] IN
                       /\ buf.rel = 1
                       /\ buf.cap = mlast.n
                       /\ \A j \in 1..mlast.n : buf.made[j] = 1 /\ buf.gone[j] = 1
    /\ mlast.op = "move"
         => /\ objs[mlast.src].ptrs = NullPtrs
            /\ soa_size(objs[mlast.src]) = 0
    /\ \A o1, o2 \in DOMAIN objs :
          o1 # o2 => \A k \in Fields :
                        objs[o1].ptrs[k] = 0 \/ objs[o1].ptrs[k] # objs[o2].ptrs[k]

\* C19 witness: three objects have been constructed and all destroyed; the
\* third had taken over, by a move, the buffers allocated first, it held
\* at least one element, and it was destroyed last; every buffer has been
\* released.
C19_Witness ==
    /\ mlast.op = "destroy"
    /\ mlast.obj = 3
    /\ mlast.n >= 1
    /\ mlast.ptrs[1] = 1
    /\ Len(heap) = 2 * ntypes
    /\ \A o \in DOMAIN objs : ~objs[o].alive
    /\ \A b \in DOMAIN heap : heap[b].rel = 1

\* C20: a container constructed with a length n and a record r has
\* size() = n and reads back r at every index 0 .. n - 1 in both layouts; a
\* default-constructed container has size() = 0 and empty() is true.
C20_SizedAndDefault ==
    /\ (mlast.op = "fill" /\ mlast.ok)
         => LET o == objs[mlast.obj]
                a == OwnSpanFill(mlast.n, mlast.tup)
            IN  /\ soa_size(o) = mlast.n
                /\ aos_size(a) = mlast.n
                /\ soa_empty(o) <=> mlast.n = 0
                /\ \A i \in 0..(mlast.n - 1) :
                      /\ soa_read(heap, o, i) = mlast.tup
                      /\ a[i + 1] = mlast.tup
    /\ mlast.op = "default"
         => /\ soa_size(objs[mlast.obj]) = 0
            /\ soa_empty(objs[mlast.obj])
            /\ aos_size(OwnSpanDefault) = 0
            /\ aos_empty(OwnSpanDefault)

\* C20 witness: a container of two elements was constructed from a record
\* with a non-empty vector.
C20_Witness ==
    /\ mlast.op = "fill"
    /\ mlast.ok
    /\ mlast.n = 2
    /\ mlast.tup # DefaultTup
    /\ soa_read(heap, objs[mlast.obj], 1) = mlast.tup

\* C20, default construction reached
C20_DefaultReached ==
    /\ mlast.op = "default"
    /\ soa_empty(objs[mlast.obj])

----------------------------------------------------------------------------
(* OffsetVec<int>: a std::vector of maybe_uninit_wrap with two iterators,  *)
(* beg_it (the first live element) and offset_it (the element of logical   *)
(* index 0). Iterators are positions counted from vec.begin(); every       *)
(* operation below that can reallocate the vector recomputes both of them  *)
(* from vec.begin(), as the code does.                                     *)

\* maybe_uninit_wrap{uninit_value}: a slot whose value was never constructed.
Uninit == -1

cav_max(v1, v2) == IF v1 > v2 THEN v1 ELSE v2

\* OffsetVec(c_offset, l): vec(l), offset_it = vec.begin() + c_offset,
\* beg_it = vec.begin(); a vector built from a list has capacity = size.
OffsetVecOf(c_offset, l) == [vec |-> l, cap |-> Len(l), beg |-> 0, off |-> c_offset]

\* OffsetVec(): an empty vector and two value-initialised iterators.
OffsetVecDefault == [vec |-> <<>>, cap |-> 0, beg |-> 0, off |-> 0]

get_offset(o) == o.off - o.beg

off_size(o) == Len(o.vec) - o.beg

beg_idx(o) == o.beg - o.off

end_idx(o) == Len(o.vec) - o.off

\* ovec[n]: offset_it[n].value
off_at(o, n) == o.vec[o.off + n + 1]

front_space(o) == o.beg

back_space(o) == o.cap - Len(o.vec)

\* new_offset < size() is asserted
set_offset(o, new_offset) == [o EXCEPT !.off = o.beg + new_offset]

\* vec.insert(vec.begin(), count, uninit): count slots in front of all the
\* others; when the capacity does not suffice the new one is
\* size + max(size, count), the growth rule of libstdc++.
vec_insert_front(o, count) ==
    LET len == Len(o.vec)
    IN  [o EXCEPT !.vec = [i \in 1..count |-> Uninit] \o o.vec,
                  !.cap = IF len + count > o.cap THEN len + cav_max(len, count)
                                                 ELSE o.cap]

\* make_space_front with offset_it left where it was in the storage.
make_space_front_KeepsOffset(o, n) ==
    IF n > front_space(o)
    THEN LET beg_offset == n - front_space(o)
         IN  [vec_insert_front(o, beg_offset) EXCEPT !.beg = beg_offset]
    ELSE o

make_space_front(o, n) ==
    IF n > front_space(o)
    THEN LET offset == get_offset(o)
             beg_offset == n - front_space(o)
         IN  [vec_insert_front(o, beg_offset) EXCEPT !.beg = beg_offset,
                                                     !.off = beg_offset + offset]
    ELSE o

\* --beg_it; construct_at(&beg_it->value, x)
emplace_front(o, xv) ==
    LET o1 == IF front_space(o) = 0
              THEN make_space_front(o, cav_max(4, (off_size(o) + 1) \div 2))
              ELSE o
    IN  [o1 EXCEPT !.beg = o1.beg - 1, !.vec[o1.beg] = xv]

\* vec.reserve(vec.size() + n) gives exactly the capacity asked for; the
\* iterators keep their positions.
make_space_back(o, n) ==
    IF n > back_space(o)
    THEN LET offset == get_offset(o)
             beg_offset == front_space(o)
         IN  [o EXCEPT !.cap = Len(o.vec) + n,
                       !.beg = beg_offset,
                       !.off = beg_offset + offset]
    ELSE o

\* vec.emplace_back(x) with room left: no reallocation
emplace_back(o, xv) ==
    LET o1 == IF back_space(o) <= 0
              THEN make_space_back(o, cav_max(4, (off_size(o) + 1) \div 2))
              ELSE o
    IN  [o1 EXCEPT !.vec = Append(o1.vec, xv)]

----------------------------------------------------------------------------
(* The OffsetVec script: one vector, grown at both ends *)

\* The lists the vector is constructed from: elements are told apart by
\* their values, 1, 2, ... in the order of their construction.
OffLists == { <<1>>, <<1, 2>> }

\* The value of the element constructed next.
FreshValue(o) == Cardinality({i \in DOMAIN o.vec : o.vec[i] # Uninit}) + 1

OffStep(op, n, o) ==
    /\ Len(o.vec) <= MaxOffLen
    /\ ovec' = o
    /\ olast' = [op |-> op, n |-> n]
    /\ UNCHANGED <<arrVars, vecVars, iterVars, memVars, ufVars, ownVars>>

\* The containers of the SoA headers while a script does not use them.
SoAIdle ==
    /\ soa = [c \in Conts |-> soa_base_fill(1, DefaultTup)]
    /\ aos = [c \in Conts |-> OwnSpanFill(1, DefaultTup)]
    /\ last = Op1("none", NoProxy)
    /\ x = NoX
    /\ built = NoBuilt
    /\ before = NoBefore
    /\ swapRun = 0
    /\ vec = [k \in Fields |-> <<>>]
    /\ avec = <<>>
    /\ pushed = <<>>
    /\ onlyPush = TRUE
    /\ vlast = NoVLast
    /\ its = NoIters
    /\ res = NoRes
    /\ walk = NoWalk
    /\ heap = <<>>
    /\ objs = <<>>
    /\ mlast = NoMLast

OffInit ==
    /\ SoAIdle
    /\ UFIdle
    /\ OwnIdle
    /\ \/ ovec = OffsetVecDefault
       \/ \E l \in OffLists : \E c \in 0..(Len(l) - 1) : ovec = OffsetVecOf(c, l)
    /\ olast = NoOLast

OffEmplaceFront == OffStep("emplace_front", 0, emplace_front(ovec, FreshValue(ovec)))

OffEmplaceBack == OffStep("emplace_back", 0, emplace_back(ovec, FreshValue(ovec)))

OffMakeSpaceFront == \E n \in 1..MaxSpace : OffStep("make_space_front", n, make_space_front(ovec, n))

OffMakeSpaceBack == \E n \in 1..MaxSpace : OffStep("make_space_back", n, make_space_back(ovec, n))

OffSetOffset ==
    \E n \in 0..(off_size(ovec) - 1) : OffStep("set_offset", n, set_offset(ovec, n))

OffNext ==
    \/ OffEmplaceFront
    \/ OffEmplaceBack
    \/ OffMakeSpaceFront
    \/ OffMakeSpaceBack
    \/ OffSetOffset

SpecOff == OffInit /\ [][OffNext]_vars

\* The logical indices of o: beg_idx() <= n < end_idx()
OffIndices(o) == beg_idx(o)..(end_idx(o) - 1)

\* Every logical index of the vector before the step denotes the same
\* element after it.
IndicesKept == \A n \in OffIndices(ovec) : off_at(ovec', n) = off_at(ovec, n)

\* C23: emplace_front and emplace_back leave ovec[n] the same element for
\* every n with beg_idx() <= n < end_idx() before the call, reallocation and
\* front-space insertion included; emplace_front lowers beg_idx() by exactly
\* 1 and emplace_back raises end_idx() by exactly 1.
C23_IndicesStable ==
    [][ /\ olast'.op \in {"emplace_front", "emplace_back"} => IndicesKept
        /\ olast'.op = "emplace_front" =>
               /\ beg_idx(ovec') = beg_idx(ovec) - 1
               /\ end_idx(ovec') = end_idx(ovec)
               /\ off_at(ovec', beg_idx(ovec')) = FreshValue(ovec)
        /\ olast'.op = "emplace_back" =>
               /\ end_idx(ovec') = end_idx(ovec) + 1
               /\ beg_idx(ovec') = beg_idx(ovec)
               /\ off_at(ovec', end_idx(ovec') - 1) = FreshValue(ovec) ]_vars

\* An emplace_front that found no room in front, inserted four slots there
\* and constructed its element in the last of them, in a vector that had
\* elements on both sides of logical index 0.
C23_Witness ==
    /\ olast.op = "emplace_front"
    /\ front_space(ovec) = 3
    /\ beg_idx(ovec) <= -2
    /\ end_idx(ovec) >= 2

\* An emplace_back that found the capacity used up and reserved more.
C23_BackReached ==
    /\ olast.op = "emplace_back"
    /\ back_space(ovec) = 3
    /\ beg_idx(ovec) <= -1
    /\ front_space(ovec) > 0

\* C25: make_space_front(n), called in any state, leaves every live element
\* at its logical index (begin(), mid() and get_offset() denote what they
\* denoted) and leaves front_space() >= n, also when 0 < front_space() < n
\* before the call.
C25_MakeSpaceFront ==
    [][ olast'.op = "make_space_front" =>
            /\ IndicesKept
            /\ beg_idx(ovec') = beg_idx(ovec)
            /\ end_idx(ovec') = end_idx(ovec)
            /\ get_offset(ovec') = get_offset(ovec)
            /\ front_space(ovec') >= olast'.n ]_vars

----------------------------------------------------------------------------
(* OwnSpan<T> with its default deleter, AllocatorDel<T>. A buffer records  *)
(* the routine that allocated it and every routine that released it; a     *)
(* span holds the number of its buffer in bufs, 0 for nullptr.             *)

\* std::allocator<T>{}.allocate(n)
default_allocate(bs, n) == Append(bs, [by |-> "allocator", n |-> n, freed |-> <<>>])

\* new T[n]
new_array(bs, n) == Append(bs, [by |-> "new[]", n |-> n, freed |-> <<>>])

\* AllocatorDel: std::destroy(ptr, ptr + n); std::allocator<T>{}.deallocate(ptr, n)
AllocatorDel(bs, ptr) == [bs EXCEPT ![ptr].freed = Append(@, "allocator")]

\* _free() of span i: if (ptr != nullptr) del(ptr, sz); ptr = nullptr; sz = 0
own_free(st, i) ==
    [spans |-> [st.spans EXCEPT ![i].ptr = 0, ![i].sz = 0],
     bufs  |-> IF st.spans[i].ptr # 0 THEN AllocatorDel(st.bufs, st.spans[i].ptr)
                                      ELSE st.bufs]

\* OwnSpan(c_size): ptr(c_size > 0 ? _default_allocate(c_size) : nullptr), sz(c_size)
own_sized(st, c_size) ==
    LET bs == IF c_size > 0 THEN default_allocate(st.bufs, c_size) ELSE st.bufs
    IN  [spans |-> Append(st.spans, [alive |-> TRUE,
                                     ptr |-> IF c_size > 0 THEN Len(bs) ELSE 0,
                                     sz |-> c_size]),
         bufs  |-> bs]

\* OwnSpan(OwnSpan const& other)
own_copy(st, j) == own_sized(st, st.spans[j].sz)

\* OwnSpan(OwnSpan&& other): ptr(other.ptr), sz(other.sz); other.ptr = nullptr;
\* other.sz = 0
own_move(st, j) ==
    [spans |-> Append([st.spans EXCEPT ![j].ptr = 0, ![j].sz = 0],
                      [alive |-> TRUE, ptr |-> st.spans[j].ptr, sz |-> st.spans[j].sz]),
     bufs  |-> st.bufs]

\* operator=(OwnSpan const& other) of span i: _free();
\* ptr = other.sz > 0 ? new T[other.sz] : nullptr; sz = other.sz
own_copy_assign(st, i, j) ==
    IF i = j THEN st
    ELSE LET s1 == own_free(st, i)
             n  == s1.spans[j].sz
             bs == IF n > 0 THEN new_array(s1.bufs, n) ELSE s1.bufs
         IN  [spans |-> [s1.spans EXCEPT ![i].ptr = IF n > 0 THEN Len(bs) ELSE 0,
                                         ![i].sz = n],
              bufs  |-> bs]

\* operator=(OwnSpan&& other) of span i: _free(); swap(ptr, other.ptr);
\* swap(sz, other.sz)
own_move_assign(st, i, j) ==
    IF i = j THEN st
    ELSE LET s1 == own_free(st, i)
         IN  [spans |-> [s1.spans EXCEPT ![i].ptr = s1.spans[j].ptr,
                                         ![i].sz = s1.spans[j].sz,
                                         ![j].ptr = s1.spans[i].ptr,
                                         ![j].sz = s1.spans[i].sz],
              bufs  |-> s1.bufs]

\* ~OwnSpan(): _free()
own_dtor(st, i) ==
    LET s1 == own_free(st, i)
    IN  [s1 EXCEPT !.spans[i].alive = FALSE]

----------------------------------------------------------------------------
(* The OwnSpan script: objects are constructed, assigned to one another and *)
(* destroyed.                                                              *)

OwnState == [spans |-> spans, bufs |-> bufs]

LiveSpans == {i \in DOMAIN spans : spans[i].alive}

OwnStep(op, i, j, st) ==
    /\ Len(st.spans) <= MaxSpans
    /\ Len(st.bufs) <= MaxBufs
    /\ spans' = st.spans
    /\ bufs' = st.bufs
    /\ slast' = [op |-> op, obj |-> i, src |-> j]
    /\ UNCHANGED <<arrVars, vecVars, iterVars, memVars, offVars, ufVars>>

OwnInit ==
    /\ SoAIdle
    /\ OffIdle
    /\ UFIdle
    /\ OwnIdle

\* The sizes spans are constructed with: none (nullptr) and some.
OwnSizes == {0, 2}

SizedConstruct ==
    \E n \in OwnSizes : OwnStep("sized", Len(spans) + 1, 0, own_sized(OwnState, n))

OwnCopyConstruct ==
    \E j \in LiveSpans : OwnStep("copy", Len(spans) + 1, j, own_copy(OwnState, j))

OwnMoveConstruct ==
    \E j \in LiveSpans : OwnStep("move", Len(spans) + 1, j, own_move(OwnState, j))

OwnCopyAssign ==
    \E i \in LiveSpans, j \in LiveSpans :
        OwnStep("copy assign", i, j, own_copy_assign(OwnState, i, j))

OwnMoveAssign ==
    \E i \in LiveSpans, j \in LiveSpans :
        OwnStep("move assign", i, j, own_move_assign(OwnState, i, j))

OwnDestruct ==
    \E i \in LiveSpans : OwnStep("dtor", i, 0, own_dtor(OwnState, i))

OwnNext ==
    \/ SizedConstruct
    \/ OwnCopyConstruct
    \/ OwnMoveConstruct
    \/ OwnCopyAssign
    \/ OwnMoveAssign
    \/ OwnDestruct

SpecOwn == OwnInit /\ [][OwnNext]_vars

\* The deallocation routine that matches an allocation routine.
Matching(by) == IF by = "new[]" THEN "delete[]" ELSE "allocator"

\* C26: after any sequence of sized construction, copy construction, copy
\* assignment and move assignment, every buffer an OwnSpan with the default
\* deleter owns is released by the routine that matches the one that
\* allocated it, and exactly once: never twice, and once every span is
\* destroyed no buffer is left unreleased.
C26_MatchingRelease ==
    /\ \A b \in DOMAIN bufs :
          /\ Len(bufs[b].freed) <= 1
          /\ \A f \in DOMAIN bufs[b].freed : bufs[b].freed[f] = Matching(bufs[b].by)
    /\ LiveSpans = {} => \A b \in DOMAIN bufs : Len(bufs[b].freed) = 1

----------------------------------------------------------------------------
(* UnionFind<size_t>: a std::vector<Node> of {size, parent} and the number *)
(* of components. Node n of the code is nodes[n + 1] here.                 *)

\* UnionFind(size): nodes[i] = {1, i}, components_num(size)
UnionFindOf(size) ==
    [nodes |-> [i \in 1..size |-> [size |-> 1, parent |-> i - 1]],
     components_num |-> size]

uf_size(u) == Len(u.nodes)

get_components_num(u) == u.components_num

\* Int old_size = nodes.size(); nodes.emplace_back(1, old_size);
\* ++components_num; return old_size
make_set(u) ==
    [u   |-> [nodes |-> Append(u.nodes, [size |-> 1, parent |-> Len(u.nodes)]),
              components_num |-> u.components_num + 1],
     ret |-> Len(u.nodes)]

\* Int& p = nodes[n].parent; if (n != p) p = find(p); return p
RECURSIVE find(_, _)
find(u, n) ==
    LET p == u.nodes[n + 1].parent
    IN  IF n # p
        THEN LET f == find(u, p)
             IN  [u |-> [f.u EXCEPT !.nodes[n + 1].parent = f.ret], ret |-> f.ret]
        ELSE [u |-> u, ret |-> p]

\* link_nodes without the addition of the sizes.
link_nodes_KeepsSize(u, r1, r2) ==
    IF r1 # r2
    THEN [u |-> [nodes |-> IF u.nodes[r1 + 1].size >= u.nodes[r2 + 1].size
                           THEN [u.nodes EXCEPT ![r2 + 1].parent = r1]
                           ELSE [u.nodes EXCEPT ![r1 + 1].parent = r2],
                 components_num |-> u.components_num - 1],
          ret |-> FALSE]
    ELSE [u |-> u, ret |-> TRUE]

\* components_num > 1 is asserted before the decrement
link_nodes(u, r1, r2) ==
    IF r1 # r2
    THEN [u |-> [nodes |-> IF u.nodes[r1 + 1].size >= u.nodes[r2 + 1].size
                           THEN [u.nodes EXCEPT ![r2 + 1].parent = r1,
                                                ![r1 + 1].size = @ + u.nodes[r2 + 1].size]
                           ELSE [u.nodes EXCEPT ![r1 + 1].parent = r2,
                                                ![r2 + 1].size = @ + u.nodes[r1 + 1].size],
                 components_num |-> u.components_num - 1],
          ret |-> FALSE]
    ELSE [u |-> u, ret |-> TRUE]

\* link_nodes(find(n1), find(n2)): the order in which the two arguments are
\* evaluated is not specified; first = 1 evaluates find(n1) first.
union_nodes(u, n1, n2, first) ==
    IF first = 1
    THEN LET f1 == find(u, n1)
             f2 == find(f1.u, n2)
         IN  link_nodes(f2.u, f1.ret, f2.ret)
    ELSE LET f2 == find(u, n2)
             f1 == find(f2.u, n1)
         IN  link_nodes(f1.u, f1.ret, f2.ret)

\* nodes[find(n)].size
get_comp_size(u, n) ==
    LET f == find(u, n)
    IN  [u |-> f.u, ret |-> f.u.nodes[f.ret + 1].size]

----------------------------------------------------------------------------
(* The UnionFind script *)

UFNodes(u) == 0..(uf_size(u) - 1)

UFStep(op, a, b, r) ==
    /\ uf' = r.u
    /\ ulast' = [op |-> op, a |-> a, b |-> b, ret |-> r.ret]
    /\ UNCHANGED <<arrVars, vecVars, iterVars, memVars, offVars, ownVars>>

UFInit ==
    /\ SoAIdle
    /\ OffIdle
    /\ OwnIdle
    /\ \E size \in 0..2 : uf = UnionFindOf(size)
    /\ ulast = NoULast

MakeSet ==
    /\ uf_size(uf) < MaxNodes
    /\ UFStep("make_set", 0, 0, make_set(uf))

Find == \E n \in UFNodes(uf) : UFStep("find", n, 0, find(uf, n))

UnionNodes ==
    \E n1 \in UFNodes(uf), n2 \in UFNodes(uf), first \in 1..2 :
        UFStep("union_nodes", n1, n2, union_nodes(uf, n1, n2, first))

GetCompSize == \E n \in UFNodes(uf) : UFStep("get_comp_size", n, 0, get_comp_size(uf, n))

UFNext ==
    \/ MakeSet
    \/ Find
    \/ UnionNodes
    \/ GetCompSize

SpecUF == UFInit /\ [][UFNext]_vars

\* The nodes n with find(n) == n
Roots(u) == {n \in UFNodes(u) : find(u, n).ret = n}

RECURSIVE SumSizes(_, _)
SumSizes(u, ns) ==
    IF ns = {} THEN 0
    ELSE LET n == CHOOSE m \in ns : TRUE
         IN  u.nodes[n + 1].size + SumSizes(u, ns \ {n})

\* C30: after any sequence of make_set and union_nodes,
\* get_components_num() is the number of nodes n with find(n) == n, the sizes
\* stored at those nodes sum to size(), and get_comp_size(n) is the number of
\* nodes m with find(m) == find(n).
C30_Components ==
    /\ get_components_num(uf) = Cardinality(Roots(uf))
    /\ SumSizes(uf, Roots(uf)) = uf_size(uf)
    /\ \A n \in UFNodes(uf) :
          get_comp_size(uf, n).ret =
              Cardinality({m \in UFNodes(uf) : find(uf, m).ret = find(uf, n).ret})

\* A union that joined two components into one of four nodes while another
\* component was left, in a forest where some node is not yet a child of its
\* root.
C30_Witness ==
    /\ ulast.op = "union_nodes"
    /\ ulast.ret = FALSE
    /\ get_components_num(uf) = 2
    /\ \E n \in UFNodes(uf) : get_comp_size(uf, n).ret = 4
    /\ \E n \in UFNodes(uf) : uf.nodes[n + 1].parent # find(uf, n).ret

====
